---- MODULE Spec2Model ----
(***************************************************************************)
(* A model of the speedupdate update engine: the path planner, the update  *)
(* orchestrator with its downloader and applier thread, the workspace      *)
(* state store and the check engine.                                       *)
(***************************************************************************)
EXTENDS Integers, Sequences, FiniteSets, TLC

VARIABLES
    sliced    \* the apply thread over a package of sliced files: its handler, the tmp files and the final files

VARIABLES
    repo    \* the build directory and the repository directory during add_to_repository

VARIABLES
    writer    \* atomic_write_json: the documents on disk, their .tmp files and the write in progress

VARIABLES
    link    \* the HTTPS link: the request it sent last and what came of it

VARIABLES
    build,      \* the PackageBuilder: its inputs, its tasks and what it wrote
    packages,   \* the repository's `packages` index: a sequence of Package
    plan        \* the last call of metadata::shortest_path: its inputs and result

VARIABLES
    stateJson,   \* .update/state.json
    checkJson,   \* .update/check.json: the check operations of the last package begun
    files,       \* the workspace's files: path -> content
    exes,        \* the workspace's files that have an executable bit
    dirs,        \* the workspace's directories
    tmp,         \* .update/tmp/<package>-<idx>.tmp: slot -> content
    dl,          \* .update/dl/<package>-<idx>.data: slot -> content
    pc,          \* where the update stream stands
    opts,        \* the goal revision and UpdateOptions of the running call
    state,       \* the shared StateUpdating
    progress,    \* the shared UpdateProgress
    pass,        \* the pass in progress: its initial state, filter and stage
    chain,       \* the packages of the pass not yet begun
    package,     \* the package in progress: its name and operations
    download,    \* the download stream of the package
    thread,      \* the applier thread of the package
    i_available, \* AvailableForApply: the cancel flag and the available position
    o_applied,   \* the queue from the applier thread to the stream
    done,        \* the applier thread's done flag
    last,        \* the last item the caller received
    run,         \* what the running (or last) call did, for the properties
    tampered,    \* the calls before which the user replaced a file
    calls        \* the number of calls made

\* Option::None of a revision, a slice, a package
None == "none"

\* The revisions a repository may name
Revisions == {"v1", "v2", "v3"}

(***************************************************************************)
(* Bounds of the planner's inputs.                                         *)
(***************************************************************************)
MaxPackages == 3

\* The sizes a package may have: two small packages are cheaper than one
\* large package, three small ones cost as much
PackageSizes == {1, 3}

\* Sum of the sizes of a sequence of packages
RECURSIVE SumSize(_)
SumSize(path) ==
    IF path = << >> THEN 0 ELSE Head(path).size + SumSize(Tail(path))

(***************************************************************************)
(* dijkstra.rs                                                             *)
(***************************************************************************)
\* u64::max_value(), the sentinel of an unreached node (the largest integer
\* of the model checker stands for it; no modelled cost comes near)
U64_MAX == 2147483647

\* impl Ord for State: the heap's greatest element has the lowest cost and,
\* among equal costs, the highest position
StateGreaterEqMutant(s, t) ==
    \/ s.cost > t.cost
    \/ s.cost = t.cost /\ s.position >= t.position

StateGreaterEq(s, t) ==
    \/ s.cost < t.cost
    \/ s.cost = t.cost /\ s.position >= t.position

\* BinaryHeap::pop
HeapPop(heap) == CHOOSE s \in heap : \A t \in heap : StateGreaterEq(s, t)

\* The relaxation test of one edge
Relaxes(next_cost, dist) == next_cost < dist

\* for edge in &adj_list[position] { ... }
RECURSIVE Relax(_, _, _, _, _)
Relax(edges, cost, position, track, heap) ==
    IF edges = << >> THEN [track |-> track, heap |-> heap]
    ELSE LET edge == Head(edges)
             next == [cost |-> cost + edge.cost, position |-> edge.node]
         IN  IF Relaxes(next.cost, track[next.position].dist)
             THEN Relax(Tail(edges), cost, position,
                        [track EXCEPT ![next.position] =
                            [dist |-> next.cost, prev |-> position]],
                        heap \cup {next})
             ELSE Relax(Tail(edges), cost, position, track, heap)

\* while let Some(prev) = track[p].prev { path.push(p); p = prev; } reversed
\* (prev = 0 is None)
RECURSIVE BuildPath(_, _)
BuildPath(track, p) ==
    IF track[p].prev = 0 THEN << >>
    ELSE Append(BuildPath(track, track[p].prev), p)

\* while let Some(State { cost, position }) = heap.pop() { ... }
RECURSIVE DijkstraLoop(_, _, _, _)
DijkstraLoop(adj_list, goal, track, heap) ==
    IF heap = {} THEN [found |-> FALSE, path |-> << >>]
    ELSE LET s == HeapPop(heap)
             rest == heap \ {s}
         IN  IF s.position = goal
             THEN [found |-> TRUE, path |-> BuildPath(track, goal)]
             ELSE IF s.cost > track[s.position].dist
             THEN DijkstraLoop(adj_list, goal, track, rest)
             ELSE LET r == Relax(adj_list[s.position], s.cost, s.position, track, rest)
                  IN  DijkstraLoop(adj_list, goal, r.track, r.heap)

dijkstra_shortest_path(adj_list, start, goal) ==
    LET track0 == [i \in 1..Len(adj_list) |->
                      [dist |-> IF i = start THEN 0 ELSE U64_MAX, prev |-> 0]]
    IN  DijkstraLoop(adj_list, goal, track0, {[cost |-> 0, position |-> start]})

(***************************************************************************)
(* metadata/mod.rs: shortest_path                                          *)
(***************************************************************************)
\* get_node_idx: the index of a name, a new node when the name is new
AddName(names, name) ==
    IF \E i \in 1..Len(names) : names[i] = name THEN names ELSE Append(names, name)

IdxOf(names, name) == CHOOSE i \in 1..Len(names) : names[i] = name

RECURSIVE PackageNames(_, _)
PackageNames(names, pkgs) ==
    IF pkgs = << >> THEN names
    ELSE PackageNames(AddName(AddName(names, Head(pkgs).from), Head(pkgs).to), Tail(pkgs))

\* idx_to_name after the three first nodes and every package were entered
NodeNames(start, goal, pkgs) ==
    PackageNames(AddName(AddName(<<None>>, start), goal), pkgs)

\* The cost of the edge from the start node to the empty node
StartToEmptyCost == 0

\* nodes[from].push(Edge { node: to, cost: package.size() }) for every package
RECURSIVE PackageEdges(_, _, _)
PackageEdges(names, node, pkgs) ==
    IF pkgs = << >> THEN << >>
    ELSE LET p == Head(pkgs)
             rest == PackageEdges(names, node, Tail(pkgs))
         IN  IF IdxOf(names, p.from) = node
             THEN <<[node |-> IdxOf(names, p.to), cost |-> p.size]>> \o rest
             ELSE rest

AdjList(names, start, pkgs) ==
    LET empty_idx == IdxOf(names, None)
        start_idx == IdxOf(names, start)
    IN  [i \in 1..Len(names) |->
            (IF i = start_idx /\ empty_idx # start_idx
             THEN <<[node |-> empty_idx, cost |-> StartToEmptyCost]>>
             ELSE << >>) \o PackageEdges(names, i, pkgs)]

\* packages.iter().find(|p| p.from() == from && Some(p.to()) == to)
FindPackage(pkgs, from, to) ==
    LET hits == {i \in 1..Len(pkgs) : pkgs[i].from = from /\ pkgs[i].to = to}
    IN  IF hits = {} THEN << >>
        ELSE <<pkgs[CHOOSE i \in hits : \A j \in hits : i <= j]>>

\* for &p in path { ...; from = to; }
RECURSIVE PathPackages(_, _, _, _)
PathPackages(names, pkgs, from, path) ==
    IF path = << >> THEN << >>
    ELSE LET to == names[Head(path)]
         IN  FindPackage(pkgs, from, to) \o PathPackages(names, pkgs, to, Tail(path))

\* Some(chain) is [found |-> TRUE, path |-> chain], None is found = FALSE
shortest_path(start, goal, pkgs) ==
    LET names == NodeNames(start, goal, pkgs)
        empty_idx == IdxOf(names, None)
        start_idx == IdxOf(names, start)
        goal_idx == IdxOf(names, goal)
        r == dijkstra_shortest_path(AdjList(names, start, pkgs), start_idx, goal_idx)
    IN  IF ~r.found THEN [found |-> FALSE, path |-> << >>]
        ELSE IF empty_idx # start_idx /\ r.path # << >> /\ r.path[1] = empty_idx
        THEN [found |-> TRUE, path |-> PathPackages(names, pkgs, None, Tail(r.path))]
        ELSE [found |-> TRUE, path |-> PathPackages(names, pkgs, start, r.path)]

\* No call of the planner was recorded
NoPlan == [called |-> FALSE, start |-> None, goal |-> None, pkgs |-> << >>,
           found |-> FALSE, path |-> << >>]

(***************************************************************************)
(* Files, hashes and operations (metadata/v1.rs, metadata/mod.rs).         *)
(* A file's content is a sequence of bytes (naturals); SHA-1 is taken to   *)
(* be injective and is modelled by tagging the hashed content.             *)
(***************************************************************************)
\* A path with no file
Absent == <<-1>>

Sha1(bytes) == [sha1 |-> bytes]

\* The workspace's files and directories, in the order of their names
PathOrder == <<"a", "b", "d">>
FilePaths == {"a", "b"}
DirPaths == {"d"}

PathRank(path) == IdxOf(PathOrder, path)

\* The fields of an operation, with the values of an operation without data
\* (Rm, MkDir, RmDir)
OpNoData(kind, path) ==
    [kind |-> kind, path |-> path, slice |-> None, exe |-> FALSE,
     data_compression |-> "raw", patch_type |-> "raw",
     data_offset |-> 0, data_size |-> 0, data_sha1 |-> Sha1(<< >>),
     local_size |-> 0, local_sha1 |-> Sha1(<< >>),
     final_size |-> 0, final_sha1 |-> Sha1(<< >>)]

\* Operation::Add with the raw codec: the final content is the data
OpAdd(path, offset, data) ==
    [OpNoData("Add", path) EXCEPT
        !.data_offset = offset, !.data_size = Len(data), !.data_sha1 = Sha1(data),
        !.final_size = Len(data), !.final_sha1 = Sha1(data)]

\* Operation::Patch with the raw patcher: the final content is the data
OpPatch(path, offset, data, local) ==
    [OpNoData("Patch", path) EXCEPT
        !.data_offset = offset, !.data_size = Len(data), !.data_sha1 = Sha1(data),
        !.local_size = Len(local), !.local_sha1 = Sha1(local),
        !.final_size = Len(data), !.final_sha1 = Sha1(data)]

OpCheck(path, size, sha1) ==
    [OpNoData("Check", path) EXCEPT !.local_size = size, !.local_sha1 = sha1]

OpMkDir(path) == OpNoData("MkDir", path)

\* Operation::as_check_operation: << >> is None, <<op>> is Some(op)
as_check_operation(op) ==
    IF op.kind \in {"Add", "Patch"}
    THEN <<[OpCheck(op.path, op.final_size, op.final_sha1) EXCEPT
               !.slice = op.slice, !.exe = op.exe]>>
    ELSE IF op.kind \in {"Check", "MkDir"} THEN <<op>>
    ELSE << >>

\* Operation::range: << >> is None, <<[start, end]>> is Some(start..end)
range(op) ==
    IF op.kind \in {"Add", "Patch"}
    THEN <<[start |-> op.data_offset, end |-> op.data_offset + op.data_size]>>
    ELSE << >>

(***************************************************************************)
(* codecs/mod.rs. The compressor zstd is modelled by a run-length coding,   *)
(* the patcher zstd (a compression with the local file as dictionary) by    *)
(* the length of the prefix shared with the local file and the rest.        *)
(***************************************************************************)
\* The length of the first run of a non-empty sequence
RunLength(bytes) ==
    CHOOSE k \in 1..Len(bytes) :
        /\ \A i \in 1..k : bytes[i] = bytes[1]
        /\ k = Len(bytes) \/ bytes[k + 1] # bytes[1]

\* zstd::Encoder
RECURSIVE ZstdEncode(_)
ZstdEncode(bytes) ==
    IF bytes = << >> THEN << >>
    ELSE LET k == RunLength(bytes)
         IN  <<bytes[1], k>> \o ZstdEncode(SubSeq(bytes, k + 1, Len(bytes)))

\* zstd::Decoder: ok is false on data that is no encoder's output
RECURSIVE ZstdDecode(_)
ZstdDecode(data) ==
    IF data = << >> THEN [ok |-> TRUE, output |-> << >>]
    ELSE IF Len(data) < 2 \/ data[2] < 1 THEN [ok |-> FALSE, output |-> << >>]
    ELSE LET rest == ZstdDecode(SubSeq(data, 3, Len(data)))
         IN  [ok |-> rest.ok,
              output |-> [i \in 1..data[2] |-> data[1]] \o rest.output]

\* The length of the longest common prefix
RECURSIVE CommonPrefix(_, _)
CommonPrefix(s, t) ==
    IF s = << >> \/ t = << >> \/ Head(s) # Head(t) THEN 0
    ELSE 1 + CommonPrefix(Tail(s), Tail(t))

\* zstd::Encoder::with_dictionary
ZstdDictEncode(local, bytes) ==
    LET k == CommonPrefix(local, bytes)
    IN  <<k>> \o SubSeq(bytes, k + 1, Len(bytes))

\* zstd::Decoder::with_dictionary
ZstdDictDecode(local, data) ==
    IF data = << >> \/ data[1] > Len(local) THEN [ok |-> FALSE, output |-> << >>]
    ELSE [ok |-> TRUE, output |-> SubSeq(local, 1, data[1]) \o Tail(data)]

\* CoderOptions: the coder's name and its minratio option (100 by default)
CoderOptions(name, min_ratio) == [name |-> name, min_ratio |-> min_ratio]

\* encoder(): the output of the named encoder fed with input
encoder(encoder_options, input) ==
    IF encoder_options.name = "zstd" THEN ZstdEncode(input) ELSE input

\* patch_encoder(): the output of the named patcher fed with input
patch_encoder(patcher_options, local, input) ==
    IF patcher_options.name = "zstd" THEN ZstdDictEncode(local, input) ELSE input

\* decoder(): the output of the named decoder fed with data
decoder(decompressor_name, data) ==
    IF decompressor_name = "zstd" THEN ZstdDecode(data)
    ELSE IF decompressor_name = "raw" THEN [ok |-> TRUE, output |-> data]
    ELSE [ok |-> FALSE, output |-> << >>]

\* patch_decoder(decompressor_name, patcher_name, local, output)
patch_decoder(decompressor_name, patcher_name, local, data) ==
    IF patcher_name = "zstd" THEN ZstdDictDecode(local, data)
    ELSE IF patcher_name = "raw" THEN decoder(decompressor_name, data)
    ELSE [ok |-> FALSE, output |-> << >>]

\* CheckCoder::patch_decoder(patcher_name, decompressor_name, local, writer)
CheckCoder_patch_decoder(patcher_name, decompressor_name, local, data) ==
    patch_decoder(decompressor_name, patcher_name, local, data)

(***************************************************************************)
(* repository/packager.rs: the tasks of a build and their operations.       *)
(***************************************************************************)
\* BuildOptions::raw(), BuildOptions::default() and options whose zstd
\* keeps every output (minratio=0)
BuildOptionsRaw ==
    [compressors |-> <<CoderOptions("raw", 100)>>,
     patchers |-> <<CoderOptions("raw", 100)>>]

BuildOptionsDefault ==
    [compressors |-> <<CoderOptions("zstd", 100), CoderOptions("raw", 100)>>,
     patchers |-> <<CoderOptions("zstd", 100), CoderOptions("raw", 100)>>]

BuildOptionsMinRatio0 ==
    [compressors |-> <<CoderOptions("zstd", 0), CoderOptions("raw", 100)>>,
     patchers |-> <<CoderOptions("zstd", 0), CoderOptions("raw", 100)>>]

\* FileType::new over the entry of a directory that may be None (<< >>)
FileType(dir, filename) ==
    IF dir = << >> THEN "None"
    ELSE IF filename \in dir[1].dirs THEN "Dir"
    ELSE IF filename \notin DOMAIN dir[1].files THEN "None"
    ELSE IF dir[1].files[filename] = Absent THEN "None"
    ELSE IF filename \in dir[1].exe THEN "Exe"
    ELSE "File"

is_dir(t) == t = "Dir"
is_file(t) == t \in {"File", "Exe"}
is_exe(t) == t = "Exe"

\* A task of the builder
BuildTask(kind, path, exe) == [kind |-> kind, path |-> path, exe |-> exe]

\* BuildTaskBuilder::push_dir: the tasks of the entries filenames, in the
\* order of the BTreeMap (the directories of the model are empty)
RECURSIVE push_dir(_, _, _)
push_dir(src, pre, filenames) ==
    IF filenames = << >> THEN << >>
    ELSE LET filename == Head(filenames)
             pre_t == FileType(pre, filename)
             src_t == FileType(src, filename)
             task(cond, kind) ==
                 IF cond THEN <<BuildTask(kind, filename, is_exe(src_t))>> ELSE << >>
         IN  task(is_file(pre_t) /\ ~is_file(src_t), "rm")
             \o task(is_dir(src_t) /\ ~is_dir(pre_t), "mkdir")
             \o task(is_file(src_t) /\ ~is_file(pre_t), "add")
             \o task(is_file(src_t) /\ is_file(pre_t), "patch")
             \o task(is_dir(pre_t) /\ ~is_dir(src_t), "rmdir")
             \o push_dir(src, pre, Tail(filenames))

\* One turn of the loop of best_encoder; best is << >> or <<Encoded>>. The
\* ratio divides by the size of the input: an empty input panics.
RECURSIVE BestEncoderLoop(_, _, _, _, _)
BestEncoderLoop(encoders_options, is_patcher, local, src, best) ==
    IF encoders_options = << >>
    THEN (IF best = << >> THEN [err |-> "no compressor"]
          ELSE [err |-> None, best |-> best[1]])
    ELSE LET encoder_options == Head(encoders_options)
             data == IF is_patcher THEN patch_encoder(encoder_options, local, src)
                     ELSE encoder(encoder_options, src)
             final_size == Len(src)
             data_size == Len(data)
             encoded == [encoder_options |-> encoder_options, data |-> data,
                         data_size |-> data_size, data_sha1 |-> Sha1(data),
                         final_size |-> final_size, final_sha1 |-> Sha1(src)]
         IN  IF final_size = 0 THEN [err |-> "panic"]
             ELSE IF (data_size * 100) \div final_size < encoder_options.min_ratio
             THEN BestEncoderLoop(Tail(encoders_options), is_patcher, local, src, best)
             ELSE BestEncoderLoop(Tail(encoders_options), is_patcher, local, src,
                      IF best # << >> /\ encoded.data_size >= best[1].data_size
                      THEN best ELSE <<encoded>>)

best_encoder(encoders_options, is_patcher, local, src) ==
    BestEncoderLoop(encoders_options, is_patcher, local, src, << >>)

\* BuiltOperation::no_data and BuiltOperation::with_data: data is << >> or
\* <<the content of the data file>>
BuiltOperation(operation, data) == [err |-> None, operation |-> operation, data |-> data]

\* add_file
add_file(options, path, exe, src) ==
    LET best_compressor == best_encoder(options.compressors, FALSE, << >>, src)
    IN  IF best_compressor.err # None THEN [err |-> best_compressor.err]
        ELSE LET best == best_compressor.best
             IN  BuiltOperation(
                     [OpNoData("Add", path) EXCEPT
                         !.exe = exe,
                         !.data_size = best.data_size, !.data_sha1 = best.data_sha1,
                         !.data_compression = best.encoder_options.name,
                         !.final_size = best.final_size,
                         !.final_sha1 = best.final_sha1],
                     <<best.data>>)

\* A patch_file that encodes the file without comparing it with the previous
patch_file_mutant(options, path, exe, src, pre) ==
    add_file(options, path, exe, src)

\* patch_file
patch_file(options, path, exe, src, pre) ==
    IF src = pre
    THEN BuiltOperation([OpCheck(path, Len(pre), Sha1(pre)) EXCEPT !.exe = exe], << >>)
    ELSE LET best_patcher == best_encoder(options.patchers, TRUE, pre, src)
         IN  IF best_patcher.err # None THEN [err |-> best_patcher.err]
             ELSE LET patcher == best_patcher.best
                      best_compressor ==
                          best_encoder(options.compressors, FALSE, << >>, patcher.data)
                  IN  IF best_compressor.err # None THEN [err |-> best_compressor.err]
                      ELSE LET best == best_compressor.best
                               common == [OpNoData("Add", path) EXCEPT
                                   !.exe = exe,
                                   !.data_size = best.data_size,
                                   !.data_sha1 = best.data_sha1,
                                   !.final_size = patcher.final_size,
                                   !.final_sha1 = patcher.final_sha1]
                           IN  IF patcher.encoder_options.name = "raw"
                               THEN BuiltOperation(
                                        [common EXCEPT
                                            !.data_compression =
                                                patcher.encoder_options.name],
                                        <<best.data>>)
                               ELSE BuiltOperation(
                                        [common EXCEPT
                                            !.kind = "Patch",
                                            !.data_compression = best.encoder_options.name,
                                            !.patch_type = patcher.encoder_options.name,
                                            !.local_size = Len(pre),
                                            !.local_sha1 = Sha1(pre)],
                                        <<best.data>>)

\* The closure a task runs
RunBuildTask(options, src, pre, task) ==
    CASE task.kind = "rm" -> BuiltOperation(OpNoData("Rm", task.path), << >>)
      [] task.kind = "mkdir" -> BuiltOperation(OpNoData("MkDir", task.path), << >>)
      [] task.kind = "rmdir" -> BuiltOperation(OpNoData("RmDir", task.path), << >>)
      [] task.kind = "add" ->
           add_file(options, task.path, task.exe, src[1].files[task.path])
      [] task.kind = "patch" ->
           patch_file(options, task.path, task.exe, src[1].files[task.path],
                      pre[1].files[task.path])

\* A merge that sets the offsets without growing the package
RECURSIVE MergeOperationsMutant(_, _, _, _)
MergeOperationsMutant(ops_groups, size, operations, data) ==
    IF ops_groups = << >>
    THEN [size |-> size, operations |-> operations, data |-> data]
    ELSE LET built_op == Head(ops_groups)
         IN  IF built_op.data # << >>
             THEN MergeOperationsMutant(Tail(ops_groups), size,
                      Append(operations, [built_op.operation EXCEPT !.data_offset = size]),
                      data \o built_op.data[1])
             ELSE MergeOperationsMutant(Tail(ops_groups), size,
                      Append(operations, built_op.operation), data)

\* PackageBuilder::execute, the loop that merges the data files: the offsets
\* are set, the package grows and the data are copied in the order of the tasks
RECURSIVE MergeOperations(_, _, _, _)
MergeOperations(ops_groups, size, operations, data) ==
    IF ops_groups = << >>
    THEN [size |-> size, operations |-> operations, data |-> data]
    ELSE LET built_op == Head(ops_groups)
         IN  IF built_op.data # << >>
             THEN MergeOperations(Tail(ops_groups),
                      size + built_op.operation.data_size,
                      Append(operations, [built_op.operation EXCEPT !.data_offset = size]),
                      data \o built_op.data[1])
             ELSE MergeOperations(Tail(ops_groups), size,
                      Append(operations, built_op.operation), data)

\* PackageBuilder::package_new
package_new(previous, source_version) ==
    [from |-> IF previous = << >> THEN None ELSE "v1", to |-> source_version, size |-> 0]

\* No build was set up
NoBuild ==
    [pc |-> "none", options |-> BuildOptionsRaw, source |-> << >>, previous |-> << >>,
     tasks |-> << >>, ops_groups |-> << >>, error |-> None,
     num_threads |-> 1, running |-> {}, collected |-> << >>,
     package |-> package_new(<< >>, None), operations |-> << >>, data |-> << >>]

(***************************************************************************)
(* The repository: two revisions and the three packages between them.      *)
(***************************************************************************)
ContentV1 == [a |-> <<1>>, b |-> <<3>>]
ContentV2 == [a |-> <<2, 5>>, b |-> <<3>>]

CompleteV1 == [from |-> None, to |-> "v1", size |-> 2]
PatchV1V2 == [from |-> "v1", to |-> "v2", size |-> 2]
CompleteV2 == [from |-> None, to |-> "v2", size |-> 3]

\* Package::package_data_name
package_data_name(p) ==
    IF p.from = None THEN (IF p.to = "v1" THEN "complete_v1" ELSE "complete_v2")
    ELSE "patch_v1_v2"

PackageDataNames == {"complete_v1", "complete_v2", "patch_v1_v2"}

\* The package the builder added to the repository goes by this name
IsBuilt(name) ==
    build.pc = "registered" /\ name = package_data_name(build.package)

\* PackageMetadata::iter: the operations of a package
Operations(name) ==
    IF IsBuilt(name) THEN build.operations
    ELSE
    CASE name = "complete_v1" ->
           <<OpMkDir("d"), OpAdd("a", 0, ContentV1.a), OpAdd("b", 1, ContentV1.b)>>
      [] name = "patch_v1_v2" ->
           <<OpPatch("a", 0, ContentV2.a, ContentV1.a),
             OpCheck("b", Len(ContentV2.b), Sha1(ContentV2.b))>>
      [] name = "complete_v2" ->
           <<OpMkDir("d"), OpAdd("a", 0, ContentV2.a), OpAdd("b", 2, ContentV2.b)>>

\* The data file of a package as the repository serves it
PackageData(name) ==
    IF IsBuilt(name) THEN build.data
    ELSE
    CASE name = "complete_v1" -> ContentV1.a \o ContentV1.b
      [] name = "patch_v1_v2" -> ContentV2.a
      [] name = "complete_v2" -> ContentV2.a \o ContentV2.b

\* The package sets a repository may hold, in the order of its index
Repositories ==
    { <<CompleteV1, PatchV1V2, CompleteV2>>,
      <<CompleteV1, PatchV1V2>>,
      <<PatchV1V2>> }

\* The operation slots of the dl and tmp directories: (package, operation_idx)
Slots == {<<n, i>> : n \in PackageDataNames, i \in 0..2}

(***************************************************************************)
(* workspace/mod.rs: UpdatePosition; metadata/v1.rs: Failure, State.       *)
(***************************************************************************)
UpdatePosition(operation_idx, byte_idx) ==
    [operation_idx |-> operation_idx, byte_idx |-> byte_idx]

\* derive(Ord) of UpdatePosition: operation_idx first, then byte_idx
PositionLess(p, q) ==
    \/ p.operation_idx < q.operation_idx
    \/ p.operation_idx = q.operation_idx /\ p.byte_idx < q.byte_idx

Failure(path, slice) == [path |-> path, slice |-> slice]

\* The slices of a file, in the order of their names
SliceOrder == <<"s1", "s2">>

\* impl Ord for Failure: (path, slice), None before any slice
FailureLess(f, g) ==
    \/ PathRank(f.path) < PathRank(g.path)
    \/ f.path = g.path /\ f.slice = None /\ g.slice # None
    \/ /\ f.path = g.path
       /\ f.slice # None
       /\ g.slice # None
       /\ IdxOf(SliceOrder, f.slice) < IdxOf(SliceOrder, g.slice)

RECURSIVE InsertSorted(_, _)
InsertSorted(sorted, f) ==
    IF sorted = << >> THEN <<f>>
    ELSE IF FailureLess(f, Head(sorted)) THEN <<f>> \o sorted
    ELSE <<Head(sorted)>> \o InsertSorted(Tail(sorted), f)

\* Vec::sort (stable)
RECURSIVE Sort(_)
Sort(failures) ==
    IF failures = << >> THEN << >>
    ELSE InsertSorted(Sort(SubSeq(failures, 1, Len(failures) - 1)),
                      failures[Len(failures)])

\* Vec::dedup: consecutive equal elements collapse
RECURSIVE Dedup(_)
Dedup(failures) ==
    IF Len(failures) < 2 THEN failures
    ELSE IF failures[1] = failures[2] THEN Dedup(Tail(failures))
    ELSE <<failures[1]>> \o Dedup(Tail(failures))

\* slice::binary_search_by_key(..).is_ok() over failures[lo..hi), the key
\* being the path alone or the path and the slice
RECURSIVE BinarySearch(_, _, _, _, _)
BinarySearch(failures, lo, hi, target, with_slice) ==
    IF lo >= hi THEN FALSE
    ELSE LET mid == lo + (hi - lo) \div 2
             key == IF with_slice THEN failures[mid]
                    ELSE Failure(failures[mid].path, None)
         IN  IF key = target THEN TRUE
             ELSE IF FailureLess(key, target)
             THEN BinarySearch(failures, mid + 1, hi, target, with_slice)
             ELSE BinarySearch(failures, lo, mid, target, with_slice)

\* StateUpdating::new
StateUpdatingNew(from, to, failures) ==
    [from |-> from, to |-> to,
     available |-> UpdatePosition(0, 0), applied |-> UpdatePosition(0, 0),
     failures |-> failures, previous_failures |-> << >>, check_only |-> FALSE]

\* StateUpdating::update_with
update_with(self, other) ==
    [self EXCEPT !.from = other.from, !.to = other.to,
                 !.available = other.available, !.applied = other.applied,
                 !.check_only = other.check_only,
                 !.failures =
                     IF other.failures # << >> \/ other.previous_failures # << >>
                     THEN Dedup(Sort(self.failures \o other.failures
                                     \o other.previous_failures))
                     ELSE self.failures]

\* dedup_failures that forgets the failures a repair was handed
dedup_failures_mutant(self) ==
    [self EXCEPT !.failures = Dedup(Sort(self.failures)),
                 !.previous_failures = << >>]

\* StateUpdating::dedup_failures
dedup_failures(self) ==
    [self EXCEPT !.failures = Dedup(Sort(self.failures \o self.previous_failures)),
                 !.previous_failures = << >>]

\* enum State
StateNew == [tag |-> "New"]
StateStable(version) == [tag |-> "Stable", version |-> version]
StateCorrupted(version, failures) ==
    [tag |-> "Corrupted", version |-> version, failures |-> failures]
StateUpdating(updating) == [tag |-> "Updating", state |-> updating]

\* state.json does not exist
NoStateFile == [tag |-> "NoFile"]

\* Serialize for State: check_only is #[serde(skip)]
ToJson(ws) ==
    IF ws.tag = "Updating"
    THEN [tag |-> "Updating",
          state |-> [from |-> ws.state.from, to |-> ws.state.to,
                     available |-> ws.state.available,
                     applied |-> ws.state.applied,
                     failures |-> ws.state.failures,
                     previous_failures |-> ws.state.previous_failures]]
    ELSE ws

\* Workspace::open and reload_state_from_fs: New when state.json is missing,
\* check_only takes its default
LoadState(json) ==
    IF json.tag = "NoFile" THEN StateNew
    ELSE IF json.tag = "Updating"
    THEN StateUpdating([from |-> json.state.from, to |-> json.state.to,
                        available |-> json.state.available,
                        applied |-> json.state.applied,
                        failures |-> json.state.failures,
                        previous_failures |-> json.state.previous_failures,
                        check_only |-> FALSE])
    ELSE json

(***************************************************************************)
(* workspace/updater.rs: the filter, the planner of a pass, write_state.    *)
(***************************************************************************)
\* filter_map of a filter that lets every operation through
filter_map_mutant(failures, o) == <<o>>

\* UpdateFilter::filter_map: << >> is None
filter_map(failures, o) ==
    IF \/ failures = << >>
       \/ BinarySearch(failures, 1, Len(failures) + 1, Failure(o.path, o.slice), TRUE)
    THEN <<o>>
    ELSE IF /\ o.slice # None
            /\ BinarySearch(failures, 1, Len(failures) + 1, Failure(o.path, None), FALSE)
    THEN as_check_operation(o)
    ELSE << >>

\* packages.iter().find(|p| p.to() == goal_version)
FindPackageTo(pkgs, goal) ==
    LET hits == {i \in 1..Len(pkgs) : pkgs[i].to = goal}
    IN  IF hits = {} THEN << >>
        ELSE <<pkgs[CHOOSE i \in hits : \A j \in hits : i <= j]>>

\* shortest_path that plans the package of a persisted Updating state anew
updater_shortest_path_mutant(working_state, pkgs, goal_version, check) ==
    LET resumed == IF working_state.tag = "Updating"
                   THEN FindPackage(pkgs, working_state.state.from, working_state.state.to)
                   ELSE << >>
        start == CASE working_state.tag = "New" -> None
                   [] working_state.tag \in {"Stable", "Corrupted"} -> working_state.version
                   [] working_state.tag = "Updating" ->
                        IF resumed # << >> THEN working_state.state.to ELSE None
        found == IF start # goal_version
                 THEN shortest_path(start, goal_version, pkgs)
                 ELSE [found |-> TRUE, path |-> << >>]
        path == resumed \o found.path
    IN  IF ~found.found THEN [err |-> "NoPath", some |-> FALSE]
        ELSE IF path # << >>
        THEN [err |-> None, some |-> TRUE, path |-> path,
              state |-> StateUpdatingNew(path[1].from, path[1].to, << >>)]
        ELSE [err |-> None, some |-> FALSE]

\* updater.rs shortest_path: err is "NoPath" or None; with no error, some
\* tells Some((path, state)) from None
updater_shortest_path(working_state, pkgs, goal_version, check) ==
    LET resumed == IF working_state.tag = "Updating"
                   THEN FindPackage(pkgs, working_state.state.from, working_state.state.to)
                   ELSE << >>
        start == CASE working_state.tag = "New" -> None
                   [] working_state.tag \in {"Stable", "Corrupted"} -> working_state.version
                   [] working_state.tag = "Updating" ->
                        IF resumed # << >> THEN working_state.state.to ELSE None
        found == IF start # goal_version
                 THEN shortest_path(start, goal_version, pkgs)
                 ELSE [found |-> TRUE, path |-> << >>]
        path == resumed \o found.path
    IN  IF ~found.found THEN [err |-> "NoPath", some |-> FALSE]
        ELSE IF path # << >>
        THEN [err |-> None, some |-> TRUE, path |-> path,
              state |-> IF resumed # << >>
                        THEN [working_state.state EXCEPT !.from = path[1].from,
                                                         !.to = path[1].to]
                        ELSE StateUpdatingNew(path[1].from, path[1].to, << >>)]
        ELSE IF check
        THEN LET p0 == FindPackageTo(pkgs, goal_version)
             IN  IF p0 = << >> THEN [err |-> "NoPath", some |-> FALSE]
                 ELSE [err |-> None, some |-> TRUE, path |-> p0,
                       state |-> [StateUpdatingNew(goal_version, goal_version, << >>)
                                      EXCEPT !.check_only = TRUE]]
        ELSE [err |-> None, some |-> FALSE]

\* update_path: the repository's package list and the metadata of the chain
\* are fetched; either request may fail
update_path(initial_state, pkgs, goal_version, check, fetch_fails) ==
    IF fetch_fails THEN [err |-> "Repository", some |-> FALSE]
    ELSE updater_shortest_path(initial_state, pkgs, goal_version, check)

\* The state the write_state closure hands to Workspace::set_state
StateToWrite(st, global_progression) ==
    IF /\ Len(st.failures) = 0
       /\ global_progression.applying_package_idx = global_progression.steps
    THEN StateStable(st.to)
    ELSE StateUpdating(st)

\* write_state: the content of state.json after the closure ran
write_state(json, st, global_progression) ==
    IF st.check_only THEN json
    ELSE ToJson(StateToWrite(st, global_progression))

(***************************************************************************)
(* workspace/download.rs                                                   *)
(***************************************************************************)
Min(a, b) == IF a < b THEN a ELSE b
Max(a, b) == IF a < b THEN b ELSE a

\* The distance under which two ranges are fetched with one request
MergeDistance == 500 * 1024

\* ranges that splits two operations whose gap is the merge distance
RECURSIVE RangesFromMutant(_, _, _, _)
RangesFromMutant(operations, offset, merge_distance, acc) ==
    IF operations = << >> THEN acc
    ELSE LET r == range(Head(operations).op)
         IN  IF r = << >>
             THEN RangesFromMutant(Tail(operations), offset, merge_distance, acc)
             ELSE LET start == r[1].start + offset
                      push == \/ acc = << >>
                              \/ acc[Len(acc)].end + merge_distance <= start
                  IN  RangesFromMutant(Tail(operations), 0, merge_distance,
                          IF push THEN Append(acc, [start |-> start, end |-> r[1].end])
                          ELSE [acc EXCEPT ![Len(acc)].end = r[1].end])

RECURSIVE RangesFrom(_, _, _, _)
RangesFrom(operations, offset, merge_distance, acc) ==
    IF operations = << >> THEN acc
    ELSE LET r == range(Head(operations).op)
         IN  IF r = << >>
             THEN RangesFrom(Tail(operations), offset, merge_distance, acc)
             ELSE LET start == r[1].start + offset
                      push == \/ acc = << >>
                              \/ acc[Len(acc)].end + merge_distance < start
                  IN  RangesFrom(Tail(operations), 0, merge_distance,
                          IF push THEN Append(acc, [start |-> start, end |-> r[1].end])
                          ELSE [acc EXCEPT ![Len(acc)].end = r[1].end])

\* ranges(operations, offset, merge_distance): the byte ranges to request
ranges(operations, offset, merge_distance) ==
    RangesFrom(operations, offset, merge_distance, << >>)

\* OpenOptions::new().write(true).create(true).open followed by File::set_len:
\* the file is created when missing, then cut or padded with zeros
SetLen(content, len) ==
    LET old == IF content = Absent THEN << >> ELSE content
    IN  [i \in 1..len |-> IF i <= Len(old) THEN old[i] ELSE 0]

\* operations.into_iter().filter_map(..): the operations that carry data
RECURSIVE WithRange(_)
WithRange(operations) ==
    IF operations = << >> THEN << >>
    ELSE IF range(Head(operations).op) = << >> THEN WithRange(Tail(operations))
    ELSE <<Head(operations)>> \o WithRange(Tail(operations))

\* download_package whose final item repeats the start position
download_package_mutant(operations, start_position) ==
    [ranges |-> ranges(operations, start_position.byte_idx, MergeDistance),
     range_idx |-> 1,
     received |-> 0,
     operations_iter |-> WithRange(operations),
     start_position |-> start_position,
     end_position |-> start_position,
     position |-> start_position,
     current_operation |-> << >>,
     pos |-> 0,
     ended |-> FALSE]

\* download_package up to its first poll: the requests and the cursor
download_package(operations, start_position) ==
    [ranges |-> ranges(operations, start_position.byte_idx, MergeDistance),
     range_idx |-> 1,
     received |-> 0,
     operations_iter |-> WithRange(operations),
     start_position |-> start_position,
     end_position |-> IF operations = << >> THEN start_position
                      ELSE UpdatePosition(operations[Len(operations)].idx + 1,
                                          start_position.byte_idx),
     position |-> start_position,
     current_operation |-> << >>,
     pos |-> 0,
     ended |-> FALSE]

\* write_downloaded_chunk: the loop over the bytes of one chunk. d is the
\* downloader, data the dl directory. range.end - pos is unsigned: below
\* zero it wraps to a length no chunk reaches.
RECURSIVE write_downloaded_chunk(_, _, _, _)
write_downloaded_chunk(d, data, name, bytes) ==
    LET opens == d.current_operation = << >> /\ d.operations_iter # << >>
        o == Head(d.operations_iter)
        file_pos == IF o.idx = d.start_position.operation_idx
                    THEN d.start_position.byte_idx ELSE 0
        d1 == IF opens
              THEN [d EXCEPT !.operations_iter = Tail(@),
                             !.position = UpdatePosition(o.idx, file_pos),
                             !.current_operation =
                                 <<[idx |-> o.idx, range |-> range(o.op)[1]]>>]
              ELSE d
        data1 == IF opens
                 THEN [data EXCEPT ![<<name, o.idx>>] = SetLen(@, file_pos)]
                 ELSE data
    IN  IF bytes = << >> \/ d1.current_operation = << >>
        THEN [download |-> d1, dl |-> data1]
        ELSE LET cur == d1.current_operation[1]
                 ignore_len == IF cur.range.start > d1.pos
                               THEN Min(Len(bytes), cur.range.start - d1.pos) ELSE 0
                 kept == SubSeq(bytes, ignore_len + 1, Len(bytes))
                 remaining == IF cur.range.end >= d1.pos
                              THEN cur.range.end - d1.pos ELSE U64_MAX
                 cur_len == Min(Len(kept), remaining)
                 is_done == remaining = cur_len
                 d2 == [d1 EXCEPT
                          !.pos = @ + cur_len,
                          !.position = IF is_done THEN UpdatePosition(cur.idx + 1, 0)
                                       ELSE UpdatePosition(cur.idx, @.byte_idx + cur_len),
                          !.current_operation = IF is_done THEN << >> ELSE @]
                 data2 == [data1 EXCEPT ![<<name, cur.idx>>] =
                                            @ \o SubSeq(kept, 1, cur_len)]
             IN  write_downloaded_chunk(d2, data2, name,
                                        SubSeq(kept, cur_len + 1, Len(kept)))

(***************************************************************************)
(* workspace/apply.rs: the queue of the applier thread.                    *)
(***************************************************************************)
ApplyOk(operation_idx, delta_applied_files) ==
    [ok |-> TRUE, operation_idx |-> operation_idx,
     delta_applied_files |-> delta_applied_files, error |-> None, path |-> None,
     slice |-> None]

ApplyErr(error, path, slice) ==
    [ok |-> FALSE, operation_idx |-> 0, delta_applied_files |-> 0,
     error |-> error, path |-> path, slice |-> slice]

\* notify: a success is folded into a success at the front of the queue
notify(queue, value) ==
    IF queue # << >> /\ queue[1].ok /\ value.ok
    THEN [queue EXCEPT ![1].operation_idx = value.operation_idx]
    ELSE Append(queue, value)

\* io::BUFFER_SIZE, the most the applier reads at once
BUFFER_SIZE == 128 * 1024

\* A write of bytes at offset at into a file opened without truncation
WriteAt(content, at, bytes) ==
    LET old == IF content = Absent THEN << >> ELSE content
        len == Max(Len(old), at + Len(bytes))
    IN  [i \in 1..len |-> IF i > at /\ i <= at + Len(bytes) THEN bytes[i - at]
                          ELSE old[i]]

(***************************************************************************)
(* The update engine: workspace/updater.rs update().                       *)
(***************************************************************************)
\* The number of calls (update, check) of one behaviour
MaxCalls == 2

\* The largest chunk the repository link delivers at once
MaxChunk == 2

\* A file's content after it was damaged by hand
Damaged == <<9, 9, 9>>

\* What an earlier run of a package of the same name left in tmp
StaleTmp == <<7, 7, 7>>

NoCheckFile == <<"nofile">>

NoPackage == [name |-> None, operations |-> << >>]
NoDownload == download_package(<< >>, UpdatePosition(0, 0))
NoThread == [operations |-> << >>, next |-> 1, pc |-> "done",
             applied_data |-> UpdatePosition(0, 0)]
NoAvailable == [cancel |-> FALSE, position |-> UpdatePosition(0, 0)]
NoOpts == [goal |-> None, check |-> FALSE]
NoPass == [initial_state |-> StateNew, filter |-> << >>, main_stage |-> "Updating"]

\* UpdateProgress::new
UpdateProgressNew ==
    [stage |-> "FindingUpdatePath", applying_package_idx |-> 0, steps |-> 0,
     downloading_operation_idx |-> 0, applying_operation_idx |-> 0]

NoLast == [kind |-> "none", stage |-> None, error |-> None, files |-> 0,
           available |-> UpdatePosition(0, 0), applied |-> UpdatePosition(0, 0)]

NoRun == [call |-> None, goal |-> None,
          start_state |-> NoStateFile,     \* the state.json the call found
          check |-> FALSE,                 \* the check option of the call
          resumed |-> FALSE,               \* the call follows a run that was killed
          first_state |-> NoStateFile,     \* the state.json the first of these runs found
          repair_planned |-> FALSE,        \* the repair pass asked for a path
          repair_initial |-> None,         \* the state the repair pass planned from
          repair_filter |-> << >>,         \* the filter of the repair pass
          repair_failures |-> 0,           \* operations that failed in the repair pass
          requests |-> << >>,              \* the byte ranges requested, per package begun
          committed |-> {},                \* the slots whose operation was committed
          prior_committed |-> {},          \* the slots committed by the run that crashed before
          write |-> [tag |-> None, outstanding |-> 0, complete |-> FALSE],
          check_found |-> << >>,           \* the failures check() found
          follows_stable |-> FALSE]        \* the call before was an update that ended
                                           \* with its success and Stable{goal}

\* The in-memory part of a process that is not running a call
ProcessIdle ==
    /\ pc' = "idle"
    /\ opts' = NoOpts
    /\ state' = StateUpdatingNew(None, None, << >>)
    /\ progress' = UpdateProgressNew
    /\ pass' = NoPass
    /\ chain' = << >>
    /\ package' = NoPackage
    /\ download' = NoDownload
    /\ thread' = NoThread
    /\ i_available' = NoAvailable
    /\ o_applied' = << >>
    /\ done' = 0

\* What a write of state.json records for the properties
WriteRecord(st, gp) ==
    [tag |-> StateToWrite(st, gp).tag,
     outstanding |-> Len(st.failures) + Len(st.previous_failures),
     complete |-> gp.applying_package_idx = gp.steps]

\* The inspect closure of the final stream: after save_state_interval has
\* elapsed since the last write the state is written, an error is ignored
Inspect(elapsed, json, st, gp) ==
    IF elapsed THEN write_state(json, st, gp) ELSE json

\* The run's record after the inspect closure
Inspected(elapsed, r, st, gp) ==
    IF elapsed /\ ~st.check_only THEN [r EXCEPT !.write = WriteRecord(st, gp)] ELSE r

\* Ok(SharedUpdateProgress): a progress event
Progress(st, gp) ==
    [kind |-> "ok", stage |-> gp.stage, error |-> None, files |-> 0,
     available |-> st.available, applied |-> st.applied]

\* Err(UpdateError)
Error(error, count) ==
    [kind |-> "err", stage |-> None, error |-> error, files |-> count,
     available |-> UpdatePosition(0, 0), applied |-> UpdatePosition(0, 0)]

\* The check operations of a package, as check.json holds them
RECURSIVE CheckOperations(_)
CheckOperations(operations) ==
    IF operations = << >> THEN << >>
    ELSE as_check_operation(Head(operations)) \o CheckOperations(Tail(operations))

InstalledStates ==
    { [stateJson |-> NoStateFile, files |-> [f \in FilePaths |-> Absent], exes |-> {},
       dirs |-> {}, checkJson |-> NoCheckFile],
      [stateJson |-> StateStable("v1"), files |-> ContentV1, exes |-> {},
       dirs |-> {"d"}, checkJson |-> CheckOperations(Operations("complete_v1"))],
      [stateJson |-> StateStable("v2"), files |-> ContentV2, exes |-> {},
       dirs |-> {"d"}, checkJson |-> CheckOperations(Operations("complete_v2"))] }

\* The tmp slots of the operations that write file a
SlotsOfA == {<<"complete_v1", 1>>, <<"complete_v2", 1>>, <<"patch_v1_v2", 0>>}

\* The documents atomic_write_json is called for in the workspace
JsonPaths == {<<"state.json">>, <<"check.json">>}

\* A writer that writes the document in place
tmp_path_mutant(path) == path

\* tmp_path: the path with .tmp pushed at its end
tmp_path(path) == path \o <<".tmp">>

\* A file that does not exist; a file is the tokens written of a value
NoJsonFile == [tokens |-> -1, value |-> << >>]

\* No write is in progress and no document was written yet
NoJson ==
    [disk |-> [p \in JsonPaths \cup {tmp_path(q) : q \in JsonPaths} |-> NoJsonFile],
     pc |-> "idle", path |-> << >>, value |-> << >>, result |-> None]

\* The HTTPS link before its first request
NoLink == [range |-> << >>, header |-> << >>, status |-> 0, ok |-> FALSE, body |-> << >>]

\* The directories before add_to_repository is called: no file of the
\* package is on disk; a path holds a file, a directory or nothing
NoRepo ==
    [pc |-> "idle", built_data |-> "none", built_metadata |-> "none",
     repo_data |-> "none", repo_metadata |-> "none", faulty |-> FALSE,
     before |-> << >>, result |-> None]

\* The apply thread before it is given a package of sliced files: no
\* handler, no tmp file and no final file
NoSliced ==
    [pc |-> "idle", operations |-> << >>, idx |-> 1, maybe_handler |-> << >>,
     tmp_files |-> << >>, final |-> [q \in FilePaths |-> Absent],
     finalized |-> << >>]

\* A workspace of one of the installations, over one of the repositories,
\* with or without stale tmp files; no call runs
Installed(repositories, installed, stales) ==
    /\ packages \in repositories
    /\ plan = NoPlan
    /\ \E w \in installed :
          /\ stateJson = w.stateJson
          /\ files = w.files
          /\ exes = w.exes
          /\ dirs = w.dirs
          /\ checkJson = w.checkJson
    /\ \E stale \in stales :
          tmp = [s \in Slots |-> IF stale /\ s \in SlotsOfA THEN StaleTmp ELSE Absent]
    /\ dl = [s \in Slots |-> Absent]
    /\ pc = "idle"
    /\ opts = NoOpts
    /\ state = StateUpdatingNew(None, None, << >>)
    /\ progress = UpdateProgressNew
    /\ pass = NoPass
    /\ chain = << >>
    /\ package = NoPackage
    /\ download = NoDownload
    /\ thread = NoThread
    /\ i_available = NoAvailable
    /\ o_applied = << >>
    /\ done = 0
    /\ last = NoLast
    /\ run = NoRun
    /\ tampered = {}
    /\ calls = 0
    /\ sliced = NoSliced
    /\ repo = NoRepo
    /\ writer = NoJson
    /\ link = NoLink

\* The same with no build in sight
Workspaces(repositories, installed, stales) ==
    /\ build = NoBuild
    /\ Installed(repositories, installed, stales)

Init == Workspaces(Repositories, InstalledStates, BOOLEAN)

\* Before a call the user replaces a file by one of contents; tampered holds
\* the calls before which a file was replaced
Tamper(contents) ==
    /\ pc = "idle"
    /\ calls \notin tampered
    /\ calls < MaxCalls
    /\ \E path \in FilePaths, content \in contents :
          /\ files[path] # content
          /\ files' = [files EXCEPT ![path] = content]
    /\ tampered' = tampered \cup {calls}
    /\ UNCHANGED <<sliced, repo, writer, link, build, exes, packages, plan, stateJson, checkJson, dirs, tmp, dl, pc, opts,
                   state, progress, pass, chain, package, download, thread,
                   i_available, o_applied, done, last, run, calls>>

\* An update that returns the empty stream only when a check is asked for
UptodateAlreadyMutant(ws, goal_version, check) ==
    ws.tag = "Stable" /\ ws.version = goal_version /\ check

\* update(): everything is uptodate and nothing requires fixing
UptodateAlready(ws, goal_version, check) ==
    ws.tag = "Stable" /\ ws.version = goal_version /\ ~check

\* update(): the state is reloaded, the failures are taken out of it and the
\* stream is built
Update(checks) ==
    /\ pc = "idle"
    /\ calls < MaxCalls
    /\ \E goal_version \in {"v2"}, check \in checks :
        LET ws == LoadState(stateJson)
            started == [NoRun EXCEPT !.call = "update", !.goal = goal_version,
                                     !.start_state = stateJson,
                                     !.check = check,
                                     !.resumed = last.kind = "crash",
                                     !.first_state = IF last.kind = "crash"
                                                     THEN run.first_state
                                                     ELSE stateJson,
                                     !.prior_committed =
                                         IF last.kind = "crash" THEN run.committed ELSE {}]
            taken == IF ws.tag = "Updating" THEN dedup_failures(ws.state) ELSE ws.state
            failures == CASE ws.tag = "Corrupted" -> ws.failures
                          [] ws.tag = "Updating" -> taken.failures
                          [] OTHER -> << >>
            workspace_state ==
                CASE ws.tag = "Corrupted" -> StateCorrupted(ws.version, << >>)
                  [] ws.tag = "Updating" -> StateUpdating([taken EXCEPT !.failures = << >>])
                  [] OTHER -> ws
        IN  /\ calls' = calls + 1
            /\ run' = started
            /\ IF UptodateAlready(ws, goal_version, check)
               THEN /\ last' = [NoLast EXCEPT !.kind = "empty"]
                    /\ UNCHANGED <<pc, opts, state, progress, pass>>
               ELSE /\ last' = NoLast
                    /\ pc' = "plan"
                    /\ opts' = [goal |-> goal_version, check |-> check]
                    /\ state' = StateUpdatingNew(None, goal_version, failures)
                    /\ progress' = UpdateProgressNew
                    /\ pass' = [initial_state |-> workspace_state, filter |-> << >>,
                                main_stage |-> "Updating"]
    /\ UNCHANGED <<sliced, repo, writer, link, build, exes, packages, plan, stateJson, checkJson, files, dirs, tmp, dl, chain,
                   package, download, thread, i_available, o_applied, done, tampered>>

\* update_internal up to its stream: the path of the pass is planned; fetches
\* tells whether a request for the metadata may fail
Plan(fetches) ==
    /\ pc = "plan"
    /\ \E fetch_fails \in fetches, elapsed \in BOOLEAN :
        LET r == update_path(pass.initial_state, packages, opts.goal, opts.check,
                             fetch_fails)
            run1 == IF pass.main_stage = "Repairing"
                    THEN [run EXCEPT !.repair_planned = TRUE,
                                     !.repair_initial = pass.initial_state.tag,
                                     !.repair_filter = pass.filter]
                    ELSE run
        IN  IF r.err # None
            THEN /\ stateJson' = Inspect(elapsed, stateJson, state, progress)
                 /\ run' = Inspected(elapsed, run1, state, progress)
                 /\ last' = Error(r.err, 0)
                 /\ ProcessIdle
            ELSE /\ run' = run1
                 /\ state' = IF r.some THEN update_with(state, r.state) ELSE state
                 /\ progress' = [progress EXCEPT
                                    !.steps = IF r.some THEN @ + Len(r.path) ELSE @,
                                    !.stage = pass.main_stage]
                 /\ chain' = IF r.some THEN r.path ELSE << >>
                 /\ pc' = "begin"
                 /\ UNCHANGED <<stateJson, last, opts, pass, package, download, thread,
                                i_available, o_applied, done>>
    /\ UNCHANGED <<sliced, repo, writer, link, build, exes, packages, plan, checkJson, files, dirs, tmp, dl, tampered, calls>>

\* The list of operations to do of a package: (idx, operation) pairs
RECURSIVE BuildOperations(_, _, _, _, _)
BuildOperations(operations, idx, check_only, filter, check) ==
    IF operations = << >> THEN << >>
    ELSE LET o == Head(operations)
             maybe_o == IF ~check_only THEN filter_map(filter, o) ELSE << >>
             kept == IF maybe_o = << >> /\ check THEN as_check_operation(o) ELSE maybe_o
         IN  (IF kept = << >> THEN << >> ELSE <<[idx |-> idx, op |-> kept[1]]>>)
             \o BuildOperations(Tail(operations), idx + 1, check_only, filter, check)

\* operations.iter().skip_while(|(idx, _)| idx < operation_idx)
RECURSIVE SkipWhile(_, _)
SkipWhile(operations, operation_idx) ==
    IF operations # << >> /\ Head(operations).idx < operation_idx
    THEN SkipWhile(Tail(operations), operation_idx)
    ELSE operations

\* The next package of the pass begins: check.json is written, the applier
\* thread is spawned and the download stream is built
BeginPackage ==
    /\ pc = "begin"
    /\ chain # << >>
    /\ LET p == Head(chain)
           name == package_data_name(p)
           st == [state EXCEPT !.from = p.from, !.to = p.to]
           operations == BuildOperations(Operations(name), 0, st.check_only,
                                         pass.filter, opts.check)
           download_operations == SkipWhile(operations, st.available.operation_idx)
           apply_operations == SkipWhile(operations, st.applied.operation_idx)
           d == download_package(download_operations, st.available)
       IN  /\ state' = st
           /\ checkJson' = CheckOperations(Operations(name))
           /\ package' = [name |-> name, operations |-> operations]
           /\ i_available' = [cancel |-> FALSE, position |-> st.available]
           /\ thread' = [operations |-> apply_operations, next |-> 1, pc |-> "begin",
                         applied_data |-> UpdatePosition(0, 0)]
           /\ download' = d
           /\ run' = [run EXCEPT !.requests =
                         Append(@, [name |-> name, available |-> st.available,
                                    operations |-> download_operations,
                                    ranges |-> d.ranges])]
    /\ o_applied' = << >>
    /\ done' = 0
    /\ pc' = "package"
    /\ UNCHANGED <<sliced, repo, writer, link, build, exes, packages, plan, stateJson, files, dirs, tmp, dl, opts, progress, pass,
                   chain, last, tampered, calls>>

\* The pass has no package left: the repair pass is set up after the normal
\* pass, the commit follows the repair pass
EndPass ==
    /\ pc = "begin"
    /\ chain = << >>
    /\ IF pass.main_stage = "Updating"
       THEN LET st == [state EXCEPT !.previous_failures = state.failures,
                                    !.failures = << >>]
            IN  /\ state' = st
                /\ IF st.previous_failures # << >>
                   THEN /\ pass' = [initial_state |-> StateNew,
                                    filter |-> Sort(st.previous_failures),
                                    main_stage |-> "Repairing"]
                        /\ progress' = [progress EXCEPT !.stage = "FindingRepairPath"]
                        /\ pc' = "plan"
                   ELSE /\ pc' = "commit"
                        /\ UNCHANGED <<pass, progress>>
       ELSE /\ pc' = "commit"
            /\ UNCHANGED <<state, pass, progress>>
    /\ UNCHANGED <<sliced, repo, writer, link, build, exes, packages, plan, stateJson, checkJson, files, dirs, tmp, dl, opts,
                   chain, package, download, thread, i_available, o_applied, done, last,
                   run, tampered, calls>>

\* The commit stream: the state is written and the last item is produced
Commit ==
    /\ pc = "commit"
    /\ stateJson' = write_state(stateJson, state, progress)
    /\ run' = Inspected(TRUE, run, state, progress)
    /\ last' = IF Len(state.failures) = 0
               THEN Progress(state, [progress EXCEPT !.stage = "Uptodate"])
               ELSE Error("Failed", Len(state.failures))
    /\ ProcessIdle
    /\ UNCHANGED <<sliced, repo, writer, link, build, exes, packages, plan, checkJson, files, dirs, tmp, dl, tampered, calls>>

(***************************************************************************)
(* UpdatePackageStream::poll_next and the two streams it polls.            *)
(***************************************************************************)
\* The arm of poll_next that handles an item of the apply stream; r is the
\* run's record
ApplyPolled(st, gp, r, item) ==
    IF item.ok
    THEN [state |-> [st EXCEPT !.applied.operation_idx = item.operation_idx],
          progress |-> [gp EXCEPT !.applying_operation_idx = item.operation_idx],
          run |-> r]
    ELSE IF item.error = "OperationFailed"
    THEN [state |-> [st EXCEPT !.failures = Append(@, Failure(item.path, item.slice))],
          progress |-> gp,
          run |-> IF gp.stage = "Repairing"
                  THEN [r EXCEPT !.repair_failures = @ + 1] ELSE r]
    ELSE [state |-> st, progress |-> gp, run |-> r]

\* A poll in which the download stream is ready with a progress: a chunk of
\* at most MaxChunk bytes was written, or the requests are over and the end
\* position is reported. The apply stream hands over the front of its queue.
PollDownload ==
    /\ pc = "package"
    /\ ~download.ended
    /\ \E n \in 1..MaxChunk, elapsed \in BOOLEAN :
        LET more == download.range_idx <= Len(download.ranges)
            rg == download.ranges[download.range_idx]
            left == rg.end - rg.start - download.received
            first == rg.start + download.received
            bytes == SubSeq(PackageData(package.name), first + 1, first + n)
            w == write_downloaded_chunk([download EXCEPT !.pos = Max(@, rg.start)],
                                        dl, package.name, bytes)
            d == IF more
                 THEN [w.download EXCEPT
                          !.received = IF n = left THEN 0 ELSE @ + n,
                          !.range_idx = IF n = left THEN @ + 1 ELSE @]
                 ELSE [download EXCEPT !.ended = TRUE]
            available == IF more THEN d.position ELSE download.end_position
            st1 == [state EXCEPT !.available = available]
            gp1 == [progress EXCEPT !.downloading_operation_idx = available.operation_idx]
            a == IF o_applied = << >> THEN [state |-> st1, progress |-> gp1, run |-> run]
                 ELSE ApplyPolled(st1, gp1, run, Head(o_applied))
        IN  /\ IF more THEN n <= left ELSE n = 1
            /\ download' = d
            /\ dl' = IF more THEN w.dl ELSE dl
            /\ i_available' = [i_available EXCEPT !.position = available]
            /\ o_applied' = IF o_applied = << >> THEN << >> ELSE Tail(o_applied)
            /\ state' = a.state
            /\ progress' = a.progress
            /\ stateJson' = Inspect(elapsed, stateJson, a.state, a.progress)
            /\ run' = Inspected(elapsed, a.run, a.state, a.progress)
            /\ last' = Progress(a.state, a.progress)
    /\ UNCHANGED <<sliced, repo, writer, link, build, exes, packages, plan, checkJson, files, dirs, tmp, pc, opts, pass, chain,
                   package, thread, done, tampered, calls>>

\* A poll in which the download stream is ready with an error: the applier
\* is cancelled, the error is the item and the caller stops
PollDownloadError ==
    /\ pc = "package"
    /\ ~download.ended
    /\ \E elapsed \in BOOLEAN :
          /\ stateJson' = Inspect(elapsed, stateJson, state, progress)
          /\ run' = Inspected(elapsed, run, state, progress)
    /\ last' = Error("Download", 0)
    /\ ProcessIdle
    /\ UNCHANGED <<sliced, repo, writer, link, build, exes, packages, plan, checkJson, files, dirs, tmp, dl, tampered, calls>>

\* A poll in which only the apply stream is ready
PollApply ==
    /\ pc = "package"
    /\ o_applied # << >>
    /\ \E elapsed \in BOOLEAN :
        LET a == ApplyPolled(state, progress, run, Head(o_applied))
        IN  /\ o_applied' = Tail(o_applied)
            /\ state' = a.state
            /\ progress' = a.progress
            /\ stateJson' = Inspect(elapsed, stateJson, a.state, a.progress)
            /\ run' = Inspected(elapsed, a.run, a.state, a.progress)
            /\ last' = Progress(a.state, a.progress)
    /\ UNCHANGED <<sliced, repo, writer, link, build, exes, packages, plan, checkJson, files, dirs, tmp, dl, pc, opts, pass, chain,
                   package, download, thread, i_available, done, tampered, calls>>

\* Both streams are over: the package's commit stream resets the positions
\* and counts the package
EndPackage ==
    /\ pc = "package"
    /\ download.ended
    /\ o_applied = << >>
    /\ done = 1
    /\ state' = [state EXCEPT !.available = UpdatePosition(0, 0),
                              !.applied = UpdatePosition(0, 0)]
    /\ progress' = [progress EXCEPT !.applying_package_idx = @ + 1]
    /\ chain' = Tail(chain)
    /\ pc' = "begin"
    /\ package' = NoPackage
    /\ download' = NoDownload
    /\ thread' = NoThread
    /\ i_available' = NoAvailable
    /\ done' = 0
    /\ UNCHANGED <<sliced, repo, writer, link, build, exes, packages, plan, stateJson, checkJson, files, dirs, tmp, dl, opts, pass,
                   o_applied, last, run, tampered, calls>>

(***************************************************************************)
(* workspace/apply.rs: the applier thread of a package.                    *)
(***************************************************************************)
\* The thread after an operation that succeeded, and after one that failed
OperationApplied(th, idx) ==
    [th EXCEPT !.applied_data = UpdatePosition(idx + 1, 0), !.next = @ + 1,
               !.pc = "begin"]

OperationFailed(th) == [th EXCEPT !.next = @ + 1, !.pc = "begin"]

\* The start of apply_operation: the handler's begin_apply. MkDir, Rm, RmDir
\* and a Check that is not asked for are over at once; Add and Patch open
\* their tmp file (created when missing, never truncated) and wait for data;
\* a Check that is asked for opens the file and sets its executable bit.
ThreadBegin ==
    /\ pc \in {"package", "stopped"}
    /\ thread.pc = "begin"
    /\ thread.next <= Len(thread.operations)
    /\ LET e == thread.operations[thread.next]
           op == e.op
           slot == <<package.name, e.idx>>
           started == [thread EXCEPT !.applied_data = UpdatePosition(e.idx, 0)]
           local_ok == /\ files[op.path] # Absent
                       /\ Len(files[op.path]) = op.local_size
           over == \/ op.kind \in {"MkDir", "Rm", "RmDir"}
                   \/ op.kind = "Check" /\ ~opts.check
           fails == op.kind \in {"Patch", "Check"} /\ ~over /\ ~local_ok
       IN  /\ dirs' = IF op.kind = "MkDir" THEN dirs \cup {op.path}
                      ELSE IF op.kind = "RmDir" THEN dirs \ {op.path}
                      ELSE dirs
           /\ files' = IF op.kind = "Rm" THEN [files EXCEPT ![op.path] = Absent]
                       ELSE files
           /\ exes' = IF op.kind = "Rm" THEN exes \ {op.path}
                      ELSE IF op.kind = "Check" /\ ~over /\ ~fails /\ op.exe
                      THEN exes \cup {op.path}
                      ELSE exes
           /\ tmp' = IF op.kind \in {"Add", "Patch"} /\ ~fails /\ tmp[slot] = Absent
                     THEN [tmp EXCEPT ![slot] = << >>] ELSE tmp
           /\ thread' = IF over THEN OperationApplied(started, e.idx)
                        ELSE IF fails THEN OperationFailed(started)
                        ELSE [started EXCEPT !.pc = "wait"]
           /\ o_applied' = IF over THEN notify(o_applied, ApplyOk(e.idx + 1, 1))
                           ELSE IF fails
                           THEN notify(o_applied, ApplyErr("OperationFailed", op.path, op.slice))
                           ELSE o_applied
    /\ UNCHANGED <<sliced, repo, writer, link, build, packages, plan, stateJson, checkJson, dl, pc, opts, state,
                   progress, pass, chain, package, download, i_available, done, last, run,
                   tampered, calls>>

\* The decoder the handler builds for an Add and for a Patch, fed with the
\* whole input
Decoded(op, local, input) ==
    IF op.kind = "Add" THEN decoder(op.data_compression, input)
    ELSE CheckCoder_patch_decoder(op.data_compression, op.patch_type, local, input)

\* WriteApplier::commit: the size and the SHA-1 of the bytes streamed and of
\* the bytes the decoder wrote are compared with the data's and the final's
CommitChecks(op, input, decoded) ==
    /\ decoded.ok
    /\ Sha1(input) = op.data_sha1
    /\ Len(input) = op.data_size
    /\ Sha1(decoded.output) = op.final_sha1
    /\ Len(decoded.output) = op.final_size

\* The applier was woken: cancelled, or the available position is past its
\* own. It reads what is available of the data file and feeds the decoder,
\* which writes the tmp file; after the last byte it commits: the tmp file
\* is renamed to the final path and the data file is removed. A Check reads
\* the file and compares its SHA-1. The tmp file of the model holds the bytes
\* fed so far; the decoder's output takes their place at the commit, before
\* whatever an earlier tmp file held past them.
ThreadApply ==
    /\ pc \in {"package", "stopped"}
    /\ thread.pc = "wait"
    /\ i_available.cancel \/ PositionLess(thread.applied_data, i_available.position)
    /\ LET e == thread.operations[thread.next]
           op == e.op
           slot == <<package.name, e.idx>>
           applied == thread.applied_data
           available == i_available.position
           remaining == op.data_size - applied.byte_idx
           available_bytes == IF available.operation_idx = applied.operation_idx
                              THEN available.byte_idx - applied.byte_idx
                              ELSE remaining
           max_read == Min(available_bytes, BUFFER_SIZE)
           read == IF dl[slot] = Absent THEN 0
                   ELSE Min(max_read, Len(dl[slot]) - applied.byte_idx)
           written == WriteAt(tmp[slot], applied.byte_idx,
                              SubSeq(dl[slot], applied.byte_idx + 1,
                                     applied.byte_idx + read))
           progressed == notify(o_applied, ApplyOk(e.idx, 0))
           failed == notify(o_applied, ApplyErr("OperationFailed", op.path, op.slice))
       IN  IF i_available.cancel
           THEN /\ thread' = OperationFailed(thread)
                /\ o_applied' = notify(o_applied, ApplyErr("Cancelled", op.path, op.slice))
                /\ UNCHANGED <<files, exes, tmp, dl, run>>
           ELSE IF op.kind = "Check"
           THEN LET q == IF op.local_size > 0 THEN progressed ELSE o_applied
                IN  /\ IF files[op.path] # Absent /\ Sha1(files[op.path]) = op.local_sha1
                       THEN /\ thread' = OperationApplied(thread, e.idx)
                            /\ o_applied' = notify(q, ApplyOk(e.idx + 1, 1))
                       ELSE /\ thread' = OperationFailed(thread)
                            /\ o_applied' = notify(q, ApplyErr("OperationFailed", op.path, op.slice))
                    /\ UNCHANGED <<files, exes, tmp, dl, run>>
           ELSE IF remaining > 0 /\ read <= 0
           THEN /\ thread' = OperationFailed(thread)
                /\ o_applied' = failed
                /\ UNCHANGED <<files, exes, tmp, dl, run>>
           ELSE IF remaining - read > 0
           THEN /\ thread' = [thread EXCEPT !.applied_data.byte_idx = @ + read]
                /\ tmp' = [tmp EXCEPT ![slot] = written]
                /\ o_applied' = progressed
                /\ UNCHANGED <<files, exes, dl, run>>
           ELSE LET content == IF remaining > 0 THEN written ELSE tmp[slot]
                    q == IF remaining > 0 THEN progressed ELSE o_applied
                    input == SubSeq(content, 1, op.data_size)
                    decoded == Decoded(op, files[op.path], input)
                    output == decoded.output
                                  \o SubSeq(content,
                                            Max(op.data_size, Len(decoded.output)) + 1,
                                            Len(content))
                IN  IF CommitChecks(op, input, decoded)
                    THEN /\ files' = [files EXCEPT ![op.path] = output]
                         /\ exes' = IF op.exe THEN exes \cup {op.path}
                                    ELSE exes \ {op.path}
                         /\ tmp' = [tmp EXCEPT ![slot] = Absent]
                         /\ dl' = IF op.data_size > 0
                                  THEN [dl EXCEPT ![slot] = Absent] ELSE dl
                         /\ thread' = OperationApplied(thread, e.idx)
                         /\ o_applied' = notify(q, ApplyOk(e.idx + 1, 1))
                         /\ run' = [run EXCEPT !.committed = @ \cup {slot}]
                    ELSE /\ tmp' = [tmp EXCEPT ![slot] = content]
                         /\ thread' = OperationFailed(thread)
                         /\ o_applied' = notify(q, ApplyErr("OperationFailed", op.path, op.slice))
                         /\ UNCHANGED <<files, exes, dl, run>>
    /\ UNCHANGED <<sliced, repo, writer, link, build, packages, plan, stateJson, checkJson, dirs, pc, opts, state, progress,
                   pass, chain, package, download, i_available, done, last, tampered,
                   calls>>

\* WriteApplier::commit when the four comparisons pass, io::remove_file has
\* removed the file at the final path and fs::rename then fails: the error is
\* the operation's, the tmp file stays
ThreadRenameFails ==
    /\ pc \in {"package", "stopped"}
    /\ thread.pc = "wait"
    /\ ~i_available.cancel
    /\ PositionLess(thread.applied_data, i_available.position)
    /\ LET e == thread.operations[thread.next]
           op == e.op
           slot == <<package.name, e.idx>>
           applied == thread.applied_data
           available == i_available.position
           remaining == op.data_size - applied.byte_idx
           available_bytes == IF available.operation_idx = applied.operation_idx
                              THEN available.byte_idx - applied.byte_idx
                              ELSE remaining
           max_read == Min(available_bytes, BUFFER_SIZE)
           read == IF dl[slot] = Absent THEN 0
                   ELSE Min(max_read, Len(dl[slot]) - applied.byte_idx)
           written == WriteAt(tmp[slot], applied.byte_idx,
                              SubSeq(dl[slot], applied.byte_idx + 1,
                                     applied.byte_idx + read))
           content == IF remaining > 0 THEN written ELSE tmp[slot]
           q == IF remaining > 0 THEN notify(o_applied, ApplyOk(e.idx, 0)) ELSE o_applied
           input == SubSeq(content, 1, op.data_size)
           decoded == Decoded(op, files[op.path], input)
       IN  /\ op.kind \in {"Add", "Patch"}
           /\ ~(remaining > 0 /\ read <= 0)
           /\ remaining - read <= 0
           /\ CommitChecks(op, input, decoded)
           /\ files[op.path] # Absent
           /\ files' = [files EXCEPT ![op.path] = Absent]
           /\ exes' = exes \ {op.path}
           /\ tmp' = [tmp EXCEPT ![slot] = content]
           /\ thread' = OperationFailed(thread)
           /\ o_applied' = notify(q, ApplyErr("OperationFailed", op.path, op.slice))
    /\ UNCHANGED <<sliced, repo, writer, link, build, packages, plan, stateJson, checkJson, dirs, dl, pc, opts, state,
                   progress, pass, chain, package, download, i_available, done, last, run,
                   tampered, calls>>

\* The thread is through its operations: done is stored
ThreadEnd ==
    /\ pc \in {"package", "stopped"}
    /\ thread.pc = "begin"
    /\ thread.next > Len(thread.operations)
    /\ thread' = [thread EXCEPT !.pc = "done"]
    /\ done' = 1
    /\ UNCHANGED <<sliced, repo, writer, link, build, exes, packages, plan, stateJson, checkJson, files, dirs, tmp, dl, pc, opts,
                   state, progress, pass, chain, package, download, i_available,
                   o_applied, last, run, tampered, calls>>

(***************************************************************************)
(* workspace/check.rs: check().                                            *)
(***************************************************************************)
\* The failures of the check operations, in their order: a Check fails when
\* the file is missing or differs in size or SHA-1
RECURSIVE CheckFailures(_, _)
CheckFailures(operations, disk) ==
    IF operations = << >> THEN << >>
    ELSE LET op == Head(operations)
             bad == /\ op.kind = "Check"
                    /\ \/ disk[op.path] = Absent
                       \/ Len(disk[op.path]) # op.local_size
                       \/ Sha1(disk[op.path]) # op.local_sha1
         IN  (IF bad THEN <<Failure(op.path, None)>> ELSE << >>)
             \o CheckFailures(Tail(operations), disk)

\* The state after the commit stream of check(): << >> when nothing is written
CheckedState(ws, failures) ==
    IF ws.tag = "Stable" /\ failures # << >>
    THEN <<StateCorrupted(ws.version, failures)>>
    ELSE IF ws.tag = "Updating"
    THEN <<StateUpdating([ws.state EXCEPT !.failures = failures])>>
    ELSE << >>

\* check(): every operation of check.json is checked by the applier thread
\* (a MkDir creates its directory, a Check sets the executable bit of a file
\* it opens), then the state is written
Check ==
    /\ pc = "idle"
    /\ calls < MaxCalls
    /\ calls' = calls + 1
    /\ LET ws == LoadState(stateJson)
           found == CheckFailures(checkJson, files)
           new == CheckedState(ws, found)
           started == [NoRun EXCEPT !.call = "check", !.start_state = stateJson,
                                    !.follows_stable =
                                        /\ run.call = "update"
                                        /\ last.kind = "ok"
                                        /\ last.stage = "Uptodate"
                                        /\ stateJson = StateStable(run.goal)]
       IN  IF ws.tag = "New"
           THEN /\ last' = Error("NewWorkspace", 0)
                /\ run' = started
                /\ UNCHANGED <<stateJson, dirs, exes>>
           ELSE IF checkJson = NoCheckFile
           THEN /\ last' = Error("LocalCheckError", 0)
                /\ run' = started
                /\ UNCHANGED <<stateJson, dirs, exes>>
           ELSE /\ last' = [NoLast EXCEPT !.kind = "ok"]
                /\ run' = [started EXCEPT !.check_found = found]
                /\ stateJson' = IF new = << >> THEN stateJson ELSE ToJson(new[1])
                /\ dirs' = dirs \cup {checkJson[i].path : i \in
                                        {j \in 1..Len(checkJson) :
                                            checkJson[j].kind = "MkDir"}}
                /\ exes' = exes \cup {checkJson[i].path : i \in
                                        {j \in 1..Len(checkJson) :
                                            /\ checkJson[j].kind = "Check"
                                            /\ checkJson[j].exe
                                            /\ files[checkJson[j].path] # Absent
                                            /\ Len(files[checkJson[j].path]) =
                                                   checkJson[j].local_size}}
    /\ UNCHANGED <<sliced, repo, writer, link, build, packages, plan, checkJson, files, tmp, dl, pc, opts, state, progress,
                   pass, chain, package, download, thread, i_available, o_applied, done,
                   tampered>>

\* The process is killed while a call runs: the memory is lost, the disk stays
Crash ==
    /\ pc # "idle"
    /\ last' = [NoLast EXCEPT !.kind = "crash"]
    /\ ProcessIdle
    /\ UNCHANGED <<sliced, repo, writer, link, build, exes, packages, plan, stateJson, checkJson, files, dirs, tmp, dl, run,
                   tampered, calls>>

\* The steps of a call once it was made
Engine ==
    \/ BeginPackage
    \/ EndPass
    \/ Commit
    \/ PollDownload
    \/ PollApply
    \/ EndPackage
    \/ ThreadBegin
    \/ ThreadApply
    \/ ThreadEnd

\* Calls of update and check on a workspace whose files the user may replace
\* between the calls; the repository answers every request
Next ==
    \/ Tamper({Damaged, ContentV2.a})
    \/ Update({FALSE})
    \/ Check
    \/ Plan({FALSE})
    \/ Engine

vars == <<sliced, repo, writer, link, build, packages, plan, stateJson, checkJson, files, exes, dirs, tmp, dl, pc, opts, state,
          progress, pass, chain, package, download, thread, i_available, o_applied,
          done, last, run, tampered, calls>>

Spec == Init /\ [][Next]_vars

\* An update killed at any point and run again; a request for the metadata
\* may fail
InitResume ==
    Workspaces(Repositories, {w \in InstalledStates :
                                 w.stateJson \in {NoStateFile, StateStable("v1")}},
               {FALSE})

NextResume ==
    \/ Update({FALSE})
    \/ Plan(BOOLEAN)
    \/ Engine
    \/ Crash

SpecResume == InitResume /\ [][NextResume]_vars

\* An installation damaged by the user, then checked and updated over a link
\* that may break during a download
InitRepair ==
    Workspaces({<<CompleteV1, PatchV1V2, CompleteV2>>},
               {w \in InstalledStates : w.stateJson # NoStateFile}, {FALSE})

Damage ==
    /\ calls = 0
    /\ Tamper({Damaged})

NextRepair ==
    \/ Damage
    \/ Update({FALSE})
    \/ Check
    \/ Plan({FALSE})
    \/ Engine
    \/ PollDownloadError

SpecRepair == InitRepair /\ [][NextRepair]_vars

\* An installation damaged by the user and updated on a disk where the
\* rename of a commit may fail
NextFaults ==
    \/ Damage
    \/ Update(BOOLEAN)
    \/ Plan({FALSE})
    \/ Engine
    \/ ThreadRenameFails

SpecFaults == InitRepair /\ [][NextFaults]_vars

\* Updates called one after the other, with or without the check option, on
\* a workspace nobody else touches
InitRerun == Workspaces(Repositories, InstalledStates, {FALSE})

NextRerun ==
    \/ Update(BOOLEAN)
    \/ Plan({FALSE})
    \/ Engine

SpecRerun == InitRerun /\ [][NextRerun]_vars

\* The variables of the workspace and of the update engine
wvars == <<stateJson, checkJson, files, exes, dirs, tmp, dl, pc, opts, state, progress, pass,
           chain, package, download, thread, i_available, o_applied, done, last, run,
           tampered, calls>>

\* The variables that no step of a build changes
evars == <<sliced, repo, writer, link, wvars>>

(***************************************************************************)
(* repository/packager.rs: PackageBuilder::execute and add_to_repository.   *)
(***************************************************************************)
\* The contents a file of a source directory may have
SourceContents ==
    [a |-> {Absent, << >>, <<1>>, <<4, 4, 4>>, <<4, 4, 5>>}, b |-> {Absent, <<3>>}]

\* The directories a build may be given
Directories ==
    {[files |-> f, exe |-> e, dirs |-> d] :
        f \in {g \in [FilePaths -> UNION {SourceContents[q] : q \in FilePaths}] :
                  \A q \in FilePaths : g[q] \in SourceContents[q]},
        e \in SUBSET FilePaths, d \in SUBSET DirPaths}

\* A directory as a file system holds it: only a file has an executable bit
ValidDirectories == {dir \in Directories : \A q \in dir.exe : dir.files[q] # Absent}

\* PackageBuilder::new, set_previous and set_options: a build of revision v2
\* from one of sources, over one of previouses (<< >> is no previous)
Builds(all_options, sources, previouses) ==
    \E options \in all_options, source \in sources, previous \in previouses :
        build = [NoBuild EXCEPT !.pc = "new", !.options = options,
                                !.source = <<source>>, !.previous = previous,
                                !.package = package_new(previous, "v2")]

\* execute(): the list of tasks is built
BuildTasks ==
    /\ build.pc = "new"
    /\ build' = [build EXCEPT !.pc = "tasks",
                              !.tasks = push_dir(build.source, build.previous, PathOrder)]
    /\ UNCHANGED <<packages, plan>>
    /\ UNCHANGED evars

\* execute(): a task runs; its error ends the build
Task ==
    /\ build.pc = "tasks"
    /\ Len(build.ops_groups) < Len(build.tasks)
    /\ LET op == RunBuildTask(build.options, build.source, build.previous,
                              build.tasks[Len(build.ops_groups) + 1])
       IN  build' = IF op.err # None
                    THEN [build EXCEPT !.pc = "failed", !.error = op.err]
                    ELSE [build EXCEPT !.ops_groups = Append(@, op)]
    /\ UNCHANGED <<packages, plan>>
    /\ UNCHANGED evars

\* execute(): the data file and the metadata file of the package are written
WritePackage ==
    /\ build.pc = "tasks"
    /\ Len(build.ops_groups) = Len(build.tasks)
    /\ LET merged == MergeOperations(build.ops_groups, build.package.size, << >>, << >>)
       IN  build' = [build EXCEPT !.pc = "built",
                                  !.package.size = merged.size,
                                  !.operations = merged.operations,
                                  !.data = merged.data]
    /\ UNCHANGED <<packages, plan>>
    /\ UNCHANGED evars

\* Repository::register_package
register_package(pkgs, p) ==
    SelectSeq(pkgs, LAMBDA q : q # p) \o <<p>>

\* add_to_repository(): the two files move to the repository and the package
\* is registered
AddToRepository ==
    /\ build.pc = "built"
    /\ build' = [build EXCEPT !.pc = "registered"]
    /\ packages' = register_package(packages, build.package)
    /\ UNCHANGED plan
    /\ UNCHANGED evars

\* The steps of a build
Builder ==
    \/ BuildTasks
    \/ Task
    \/ WritePackage
    \/ AddToRepository

\* update() once the package is in the repository
UpdateBuilt ==
    /\ build.pc = "registered"
    /\ Update({FALSE})

\* A complete package is built from a source directory, added to an empty
\* repository and applied to an empty workspace
InitBuild ==
    /\ Builds({BuildOptionsRaw, BuildOptionsDefault, BuildOptionsMinRatio0},
              ValidDirectories, {<< >>})
    /\ Installed({<< >>}, {w \in InstalledStates : w.stateJson = NoStateFile}, {FALSE})

\* The workspace a directory was installed in as revision v1: its files, and
\* a check.json of a Check for every file and a MkDir for every directory
InstalledFrom(dir) ==
    LET tasks == push_dir(<<dir>>, << >>, PathOrder)
    IN  [stateJson |-> StateStable("v1"), files |-> dir.files, exes |-> dir.exe,
         dirs |-> dir.dirs,
         checkJson |->
             [i \in 1..Len(tasks) |->
                 IF tasks[i].kind = "mkdir" THEN OpMkDir(tasks[i].path)
                 ELSE [OpCheck(tasks[i].path, Len(dir.files[tasks[i].path]),
                               Sha1(dir.files[tasks[i].path]))
                          EXCEPT !.exe = tasks[i].exe]]]

\* The directory of revision v1
V1Directory == [files |-> ContentV1, exe |-> {}, dirs |-> {"d"}]

\* A patch package is built from a source directory over a previous directory
\* (the source itself, or the directory of v1), added to an empty repository
\* and applied to a workspace that holds the previous directory
InitPatch ==
    \E source \in ValidDirectories : \E previous \in {source, V1Directory} :
        /\ Builds({BuildOptionsRaw, BuildOptionsDefault, BuildOptionsMinRatio0},
                  {source}, {<<previous>>})
        /\ Installed({<< >>}, {InstalledFrom(previous)}, {FALSE})

\* update is called, with or without the check option, once the package is
\* in the repository
UpdateBuiltChecked ==
    /\ build.pc = "registered"
    /\ Update(BOOLEAN)

NextPatch ==
    \/ Builder
    \/ UpdateBuiltChecked
    \/ Plan({FALSE})
    \/ Engine

SpecPatch == InitPatch /\ [][NextPatch]_vars

\* Packages of every kind are built: complete ones, and patches over any
\* previous directory
InitPackager ==
    /\ Builds({BuildOptionsRaw, BuildOptionsDefault, BuildOptionsMinRatio0},
              ValidDirectories, {<< >>} \cup {<<previous>> : previous \in ValidDirectories})
    /\ Installed({<< >>}, {w \in InstalledStates : w.stateJson = NoStateFile}, {FALSE})

NextPackager == Builder

SpecPackager == InitPackager /\ [][NextPackager]_vars

NextBuild ==
    \/ Builder
    \/ UpdateBuilt
    \/ Plan({FALSE})
    \/ Engine

SpecBuild == InitBuild /\ [][NextBuild]_vars

(***************************************************************************)
(* The planner on its own: a repository index is built package by package  *)
(* and the planner is asked for a path.                                    *)
(***************************************************************************)
RevisionOrder == <<None, "v1", "v2", "v3">>

\* Package names derive from (from, to): an index holds one package per edge.
\* Edges are registered in increasing (from, to) order.
EdgeRank(from, to) ==
    IdxOf(RevisionOrder, from) * (Len(RevisionOrder) + 1) + IdxOf(RevisionOrder, to)

NewEdge(pkgs, from, to) ==
    /\ from # to
    /\ pkgs # << >> =>
          EdgeRank(pkgs[Len(pkgs)].from, pkgs[Len(pkgs)].to) < EdgeRank(from, to)

Reverse(s) == [i \in 1..Len(s) |-> s[Len(s) + 1 - i]]

InitPlanner ==
    /\ build = NoBuild
    /\ exes = {}
    /\ packages = << >>
    /\ plan = NoPlan
    /\ stateJson = NoStateFile
    /\ checkJson = NoCheckFile
    /\ files = [f \in FilePaths |-> Absent]
    /\ dirs = {}
    /\ tmp = [s \in Slots |-> Absent]
    /\ dl = [s \in Slots |-> Absent]
    /\ pc = "idle"
    /\ opts = NoOpts
    /\ state = StateUpdatingNew(None, None, << >>)
    /\ progress = UpdateProgressNew
    /\ pass = NoPass
    /\ chain = << >>
    /\ package = NoPackage
    /\ download = NoDownload
    /\ thread = NoThread
    /\ i_available = NoAvailable
    /\ o_applied = << >>
    /\ done = 0
    /\ last = NoLast
    /\ run = NoRun
    /\ tampered = {}
    /\ calls = 0
    /\ sliced = NoSliced
    /\ repo = NoRepo
    /\ writer = NoJson
    /\ link = NoLink

\* The repository registers one more package
RegisterPackage ==
    /\ ~plan.called
    /\ Len(packages) < MaxPackages
    /\ \E from \in Revisions \cup {None}, to \in Revisions, size \in PackageSizes :
          /\ NewEdge(packages, from, to)
          /\ packages' = Append(packages, [from |-> from, to |-> to, size |-> size])
    /\ plan' = NoPlan
    /\ UNCHANGED build
    /\ UNCHANGED evars

\* A caller asks for the path from start to goal; the index lists the
\* packages in registration order or in the opposite order
CallPlanner ==
    /\ ~plan.called
    /\ \E start \in Revisions \cup {None}, goal \in Revisions,
          pkgs \in {packages, Reverse(packages)} :
          /\ start # goal
          /\ LET r == shortest_path(start, goal, pkgs)
             IN  plan' = [called |-> TRUE, start |-> start, goal |-> goal, pkgs |-> pkgs,
                          found |-> r.found, path |-> r.path]
    /\ UNCHANGED <<sliced, repo, writer, link, build, packages>>
    /\ UNCHANGED evars

NextPlanner == RegisterPackage \/ CallPlanner

SpecPlanner == InitPlanner /\ [][NextPlanner]_vars

(***************************************************************************)
(* What a chain is, independently of the planner.                          *)
(***************************************************************************)
\* All sequences of distinct package indices of length at most n
RECURSIVE IndexSeqs(_, _)
IndexSeqs(S, n) ==
    IF n = 0 THEN {<< >>}
    ELSE LET shorter == IndexSeqs(S, n - 1)
         IN  shorter \cup
             {Append(s, i) : s \in {t \in shorter : Len(t) = n - 1},
                             i \in S}

IsChain(pkgs, start, goal, c) ==
    /\ c # << >>
    /\ c[1].from \in {None, start}
    /\ \A k \in 1..(Len(c) - 1) : c[k + 1].from = c[k].to
    /\ c[Len(c)].to = goal

Chains(pkgs, start, goal) ==
    {c \in {[k \in 1..Len(s) |-> pkgs[s[k]]] : s \in IndexSeqs(1..Len(pkgs), Len(pkgs))} :
        IsChain(pkgs, start, goal, c)}

\* C8: for every package set, start and reachable goal other than start, the
\* planner returns a connected chain that ends at goal, starts with a
\* standalone package or at start, and whose summed size is the minimum over
\* all such chains; it returns no path exactly when there is no such chain.
C8_PlannerMinimal ==
    plan.called =>
        LET all == Chains(plan.pkgs, plan.start, plan.goal)
        IN  /\ plan.found <=> all # {}
            /\ plan.found =>
                  /\ IsChain(plan.pkgs, plan.start, plan.goal, plan.path)
                  /\ \A k \in 1..Len(plan.path) :
                        \E i \in 1..Len(plan.pkgs) : plan.pkgs[i] = plan.path[k]
                  /\ \A c \in all : SumSize(plan.path) <= SumSize(c)

\* A standalone package was chosen over a patch from the start revision
C8_Witness ==
    /\ plan.called /\ plan.found
    /\ plan.start # None
    /\ plan.path[1].from = None
    /\ \E c \in Chains(plan.pkgs, plan.start, plan.goal) :
          c[1].from = plan.start /\ SumSize(c) > SumSize(plan.path)

(***************************************************************************)
(* Properties of update and check.                                         *)
(***************************************************************************)
\* The last call was an update and its stream was read to its last item
UpdateEnded == pc = "idle" /\ run.call = "update" /\ last.kind \in {"ok", "err"}

\* The last item of the update was the success
Uptodate == UpdateEnded /\ last.kind = "ok" /\ last.stage = "Uptodate"

\* The failures a state.json records
RecordedFailures(json) ==
    CASE json.tag = "Corrupted" -> json.failures
      [] json.tag = "Updating" -> json.state.failures \o json.state.previous_failures
      [] OTHER -> << >>

Range(s) == {s[i] : i \in 1..Len(s)}

PositionLessEq(p, q) == ~PositionLess(q, p)

\* C1: every write of state.json by update records Stable exactly when every
\* package of the chain is applied and no failure is outstanding, the failures
\* moved to previous_failures included; every other write records Updating
C1_StableOnlyWhenDone ==
    run.write.tag # None =>
        (run.write.tag = "Stable" <=>
            (run.write.outstanding = 0 /\ run.write.complete))

\* C2: when update ends with Stable{goal}, every file of a check operation of
\* the last applied package has the size and the SHA-1 of that operation,
\* stale tmp files or not (the user replaced no file)
C2_FilesMatchAfterStable ==
    (Uptodate /\ stateJson = StateStable(run.goal) /\ tampered = {}
        /\ checkJson # NoCheckFile) =>
        CheckFailures(checkJson, files) = << >>

\* C3: the last item is the success exactly when the run left Stable{goal}
\* with no failure; the error Failed{n} comes with a persisted Updating that
\* carries the n failures
C3_LastItem ==
    UpdateEnded =>
        /\ (Uptodate => stateJson = StateStable(run.goal))
        /\ (run.write.tag = "Stable" => Uptodate)
        /\ (last.error = "Failed" =>
               /\ last.files > 0
               /\ stateJson.tag = "Updating"
               /\ Len(stateJson.state.failures) = last.files)

\* C4: applied <= available in every progress event and in every persisted
\* Updating state
C4_AppliedWithinAvailable ==
    /\ (last.kind = "ok" => PositionLessEq(last.applied, last.available))
    /\ (stateJson.tag = "Updating" =>
           PositionLessEq(stateJson.state.applied, stateJson.state.available))

\* The run that was not interrupted has a path to the goal
HasPath(json, check) ==
    updater_shortest_path(LoadState(json), packages, run.goal, check).err = None

\* C5: an update run again after a kill, against the same repository, ends
\* with the files and the state Stable{goal} of the run that was not killed
C5_ResumeEndsAlike ==
    (UpdateEnded /\ run.resumed /\ last.error # "Repository"
        /\ HasPath(run.first_state, run.check)) =>
        /\ stateJson = StateStable(run.goal)
        /\ files = ContentV2

\* The operations of a request that carry data
Fetched(request) ==
    {request.operations[i] : i \in {j \in 1..Len(request.operations) :
                                       range(request.operations[j].op) # << >>}}

\* C6: a restarted update requests no operation below the persisted
\* available.operation_idx, its first range starts at data_offset +
\* available.byte_idx of the operation available.operation_idx, and it
\* fetches no operation that was committed before the kill
C6_NoRedownload ==
    (run.call = "update" /\ run.resumed /\ run.requests # << >>) =>
        LET first == run.requests[1]
            json == run.start_state
        IN  /\ json.tag = "Updating" =>
                  LET available == json.state.available
                      at == {e \in Fetched(first) : e.idx = available.operation_idx}
                  IN  /\ \A e \in Fetched(first) : e.idx >= available.operation_idx
                      /\ \A e \in at :
                            first.ranges[1].start =
                                e.op.data_offset + available.byte_idx
            /\ \A k \in 1..Len(run.requests) :
                  \A e \in Fetched(run.requests[k]) :
                      <<run.requests[k].name, e.idx>> \notin run.prior_committed

\* C7: when the planner cannot reach the goal from the workspace's state,
\* update ends with NoPath and state.json is as the call found it
C7_NoPathLeavesState ==
    (UpdateEnded /\ ~HasPath(run.start_state, run.check)) =>
        /\ last.error = "NoPath"
        /\ stateJson = run.start_state

\* C9: an update that starts from a state recording failures (Corrupted, or
\* Updating with failures or previous_failures) plans its repair pass from
\* New with every recorded failure in the filter, and ends in Stable{goal}
\* when its stream reaches the commit (no download or planning error ended
\* it) and no repaired operation failed
C9_RepairCoversFailures ==
    (run.call = "update" /\ RecordedFailures(run.start_state) # << >>) =>
        /\ run.repair_planned =>
              /\ run.repair_initial = "New"
              /\ Range(RecordedFailures(run.start_state)) \subseteq
                     Range(run.repair_filter)
        /\ (UpdateEnded /\ last.error \notin {"Download", "NoPath", "Repository"}
               /\ run.repair_failures = 0) =>
              /\ run.repair_planned
              /\ Uptodate
              /\ stateJson = StateStable(run.goal)

C9_Witness ==
    /\ Uptodate
    /\ run.start_state.tag = "Updating"
    /\ run.start_state.state.previous_failures # << >>
    /\ run.repair_planned
    /\ stateJson = StateStable(run.goal)

\* C10: a check that found failures F turns Stable{version} into
\* Corrupted{version, F}; on Updating the state keeps every failure it held
\* and gains F
C10_CheckKeepsFailures ==
    (pc = "idle" /\ run.call = "check" /\ last.kind = "ok"
        /\ run.check_found # << >>) =>
        LET json == run.start_state
        IN  /\ json.tag = "Stable" =>
                  stateJson = StateCorrupted(json.version, run.check_found)
            /\ json.tag = "Updating" =>
                  /\ stateJson.tag = "Updating"
                  /\ Range(json.state.failures) \cup Range(run.check_found)
                         \subseteq Range(stateJson.state.failures)

\* A call of check() was read to its last item, which was not an error
CheckEnded == pc = "idle" /\ run.call = "check" /\ last.kind = "ok"

\* C11: after a check that succeeded, state.json is Stable and the check
\* found no failure, or it is Corrupted or Updating with failures listed
C11_CheckedStateShape ==
    CheckEnded =>
        \/ stateJson.tag = "Stable" /\ run.check_found = << >>
        \/ stateJson.tag = "Corrupted" /\ stateJson.failures # << >>
        \/ stateJson.tag = "Updating" /\ stateJson.state.failures # << >>

\* C12: a check that follows an update ended in Stable{goal}, no file being
\* replaced between the two, succeeds, finds no failure and leaves
\* Stable{goal}
C12_CheckAfterStable ==
    (pc = "idle" /\ run.call = "check" /\ run.follows_stable
        /\ (calls - 1) \notin tampered) =>
        /\ last.kind = "ok"
        /\ run.check_found = << >>
        /\ stateJson = run.start_state

\* C13: update(goal) with check = false on a workspace in Stable{goal}
\* returns the empty stream: no pass is planned, no package begins, nothing is
\* requested, and no file of the workspace, state.json included, changes
C13_StableGoalIsNoop ==
    [][(pc = "idle" /\ run'.call = "update" /\ calls' = calls + 1
          /\ stateJson = StateStable(run'.goal) /\ ~run'.check) =>
          /\ pc' = "idle"
          /\ last'.kind = "empty"
          /\ run'.requests = << >>
          /\ UNCHANGED <<stateJson, checkJson, files, dirs, tmp, dl, plan, chain,
                         package, download, thread>>]_vars

\* The update is called again after the update that applied the patch
C13_Witness ==
    /\ pc = "idle"
    /\ run.call = "update"
    /\ run.start_state = StateStable(run.goal)
    /\ ~run.check
    /\ last.kind = "empty"
    /\ checkJson = CheckOperations(Operations("patch_v1_v2"))

\* The workspace holds the files, the executable bits and the directories of
\* the source directory of the build
CopyOfSource ==
    /\ \A path \in FilePaths : files[path] = build.source[1].files[path]
    /\ exes = build.source[1].exe
    /\ build.source[1].dirs \subseteq dirs

\* C14: the build of a complete package from a source directory succeeds,
\* and the update of an empty workspace with that package ends in Stable
\* with every file of the source byte for byte, its executable bit, and
\* every directory of the source
C14_CompleteRoundTrip ==
    /\ build.pc # "failed"
    /\ (UpdateEnded /\ build.pc = "registered") =>
          /\ Uptodate
          /\ stateJson = StateStable(build.package.to)
          /\ CopyOfSource

\* The same for the builds that succeed
C14_RoundTripOfBuilt ==
    (UpdateEnded /\ build.pc = "registered") =>
        /\ Uptodate
        /\ stateJson = StateStable(build.package.to)
        /\ CopyOfSource

\* The operations the package holds for a path
OperationsOf(path) ==
    {build.operations[i] : i \in {j \in 1..Len(build.operations) :
                                     build.operations[j].path = path}}

\* C16: a build whose source holds a zero-byte file completes without error,
\* the file becomes an Add with final_size = 0 and the SHA-1 of the empty
\* input, and the update creates the empty file and records no failure
C16_ZeroByteFile ==
    \A path \in FilePaths :
        build.source # << >> /\ build.source[1].files[path] = << >> =>
            /\ build.pc # "failed"
            /\ build.pc \in {"built", "registered"} =>
                  \E op \in OperationsOf(path) :
                      /\ op.kind = "Add"
                      /\ op.final_size = 0
                      /\ op.final_sha1 = Sha1(<< >>)
            /\ (UpdateEnded /\ build.pc = "registered") =>
                  /\ Uptodate
                  /\ files[path] = << >>

\* The application files of the workspace are those of the previous directory
FilesOfPrevious ==
    /\ files = build.previous[1].files
    /\ exes = build.previous[1].exe
    /\ dirs = build.previous[1].dirs

\* C15: the build of a patch between two identical directories succeeds with
\* a package of size 0 whose operations are all Check, and the update with
\* that package ends in Stable and changes no file, bit or directory
C15_IdenticalDirectories ==
    (build.previous # << >> /\ build.previous = build.source) =>
        /\ build.pc # "failed"
        /\ build.pc \in {"built", "registered"} =>
              /\ build.package.size = 0
              /\ build.data = << >>
              /\ \A i \in 1..Len(build.operations) : build.operations[i].kind = "Check"
        /\ FilesOfPrevious
        /\ (UpdateEnded /\ build.pc = "registered") =>
              /\ Uptodate
              /\ stateJson = StateStable(build.package.to)

\* The patch between two identical directories holding an empty file, an
\* executable file and a directory was applied
C15_Witness ==
    /\ build.previous # << >>
    /\ build.previous = build.source
    /\ build.source[1].files["a"] = << >>
    /\ "b" \in build.source[1].exe
    /\ build.source[1].dirs # {}
    /\ Len(build.operations) = 2
    /\ run.check
    /\ Uptodate
    /\ stateJson = StateStable("v2")

\* The operations of the built package that carry data, in operation order
DataOperations ==
    SelectSeq(build.operations, LAMBDA op : op.kind \in {"Add", "Patch"})

\* The bytes of the data file in the range of an operation
DataRange(op) ==
    SubSeq(build.data, op.data_offset + 1, op.data_offset + op.data_size)

\* C17: in every package the builder writes, the data ranges of the Add and
\* Patch operations, in operation order, are pairwise disjoint and contiguous,
\* start at 0 and end at package.size, and the data file holds the bytes of
\* each operation at its range
C17_DataLayout ==
    build.pc \in {"built", "registered"} =>
        LET ops == DataOperations
        IN  /\ Len(build.data) = build.package.size
            /\ ops = << >> => build.package.size = 0
            /\ ops # << >> =>
                  /\ ops[1].data_offset = 0
                  /\ ops[Len(ops)].data_offset + ops[Len(ops)].data_size
                        = build.package.size
            /\ \A i \in 1..(Len(ops) - 1) :
                  ops[i].data_offset + ops[i].data_size = ops[i + 1].data_offset
            /\ \A i, j \in 1..Len(ops) :
                  i < j => ops[i].data_offset + ops[i].data_size <= ops[j].data_offset
            /\ \A i \in 1..Len(ops) :
                  /\ Len(DataRange(ops[i])) = ops[i].data_size
                  /\ Sha1(DataRange(ops[i])) = ops[i].data_sha1

\* A package was written whose operations are a Patch followed by an Add,
\* both with data, between operations without data
C17_Witness ==
    /\ build.pc = "built"
    /\ Len(DataOperations) = 2
    /\ DataOperations[1].kind = "Patch"
    /\ DataOperations[1].data_size > 0
    /\ DataOperations[2].kind = "Add"
    /\ DataOperations[2].data_size > 0
    /\ Len(build.operations) > 2

\* The errors of operations in the queue of the applier
FailedItems(queue) ==
    SelectSeq(queue, LAMBDA item : ~item.ok /\ item.error = "OperationFailed")

\* A step of the applier thread in which the operation it applies fails
OperationFails ==
    /\ pc = "package"
    /\ thread.pc \in {"begin", "wait"}
    /\ thread' # thread
    /\ Len(FailedItems(o_applied')) > Len(FailedItems(o_applied))

\* A poll that takes the error of an operation off the queue of the applier
FailurePolled ==
    /\ pc = "package"
    /\ pc' = "package"
    /\ FailedItems(o_applied) # << >>
    /\ o_applied' = Tail(o_applied)
    /\ Head(o_applied) = Head(FailedItems(o_applied))

\* The failed operation puts one error with its path on the queue and the
\* thread goes on with the next operation; the poll that takes the error
\* records one Failure with that path
OneFailureRecorded ==
    /\ OperationFails =>
          LET op == thread.operations[thread.next].op
          IN  /\ FailedItems(o_applied')
                    = Append(FailedItems(o_applied), ApplyErr("OperationFailed", op.path, op.slice))
              /\ thread'.pc = "begin"
              /\ thread'.next = thread.next + 1
              /\ thread'.operations = thread.operations
    /\ FailurePolled =>
          state'.failures = Append(state.failures, Failure(Head(o_applied).path, None))

\* The failed operation leaves the file at its final path as it was
FinalPathUntouched ==
    OperationFails =>
        LET op == thread.operations[thread.next].op
        IN  files'[op.path] = files[op.path]

\* C18: when applying an operation fails, exactly one Failure with the
\* operation's path is recorded, the file at the final path is left as it was
\* and the remaining operations of the package are still applied
C18_FailedOperation ==
    [][OneFailureRecorded /\ FinalPathUntouched]_vars

\* The part of it that holds whatever the error: one Failure, and the thread
\* goes on
C18_OneFailureAndGoesOn ==
    [][OneFailureRecorded]_vars

\* No file is left under .update/dl nor under .update/tmp
NoScratchFile ==
    \A slot \in Slots : dl[slot] = Absent /\ tmp[slot] = Absent

\* C19: when update ends in Stable{goal}, no scratch file remains under
\* .update/dl or .update/tmp
C19_NoScratchAfterStable ==
    (Uptodate /\ stateJson = StateStable(run.goal)) => NoScratchFile

\* The step that commits an Add or a Patch removes the data file and the tmp
\* file of the operation
C19_CommitRemovesScratch ==
    [][\A slot \in Slots :
          (slot \in run'.committed /\ slot \notin run.committed) =>
              dl'[slot] = Absent /\ tmp'[slot] = Absent]_vars

\* The applier waits for the data of an Add or a Patch and was notified
Reading ==
    /\ pc = "package"
    /\ thread.pc = "wait"
    /\ thread.operations[thread.next].op.kind \in {"Add", "Patch"}
    /\ ~i_available.cancel
    /\ PositionLess(thread.applied_data, i_available.position)

\* The bytes of the data of the operation being applied that the downloader
\* has published
Published ==
    LET e == thread.operations[thread.next]
        available == i_available.position
    IN  IF available.operation_idx = e.idx THEN available.byte_idx
        ELSE IF available.operation_idx > e.idx THEN e.op.data_size
        ELSE 0

\* The bytes the applier asks of the data file in its next read
MaxRead ==
    LET e == thread.operations[thread.next]
        applied == thread.applied_data
        available == i_available.position
        remaining == e.op.data_size - applied.byte_idx
        available_bytes == IF available.operation_idx = applied.operation_idx
                           THEN available.byte_idx - applied.byte_idx
                           ELSE remaining
    IN  Min(available_bytes, BUFFER_SIZE)

\* The bytes the read returns: those asked, or what is left of the data file
BytesRead ==
    LET e == thread.operations[thread.next]
        slot == <<package.name, e.idx>>
        applied == thread.applied_data
    IN  IF dl[slot] = Absent THEN << >>
        ELSE SubSeq(dl[slot], applied.byte_idx + 1,
                    applied.byte_idx + Min(MaxRead, Len(dl[slot]) - applied.byte_idx))

\* The bytes of the package at the place in the data of the operation where
\* the applier reads
BytesOfPackage(n) ==
    LET op == thread.operations[thread.next].op
        from == op.data_offset + thread.applied_data.byte_idx
    IN  SubSeq(PackageData(package.name), from + 1, from + n)

\* Every read of the applier stays within the bytes that are published
ReadsWithinPublished ==
    Reading =>
        LET e == thread.operations[thread.next]
            applied == thread.applied_data
        IN  /\ applied.operation_idx = e.idx
            /\ MaxRead >= 0
            /\ applied.byte_idx + MaxRead <= Published
            /\ i_available.position.operation_idx = e.idx =>
                  MaxRead <= i_available.position.byte_idx - applied.byte_idx

\* Every read of the applier returns bytes of the package, as the downloader
\* writes them
ReadsWrittenBytes ==
    Reading => BytesRead = BytesOfPackage(Len(BytesRead))

\* The published position does not move backwards while a package is applied
WatermarkMonotone ==
    (pc = "package" /\ pc' = "package") =>
        PositionLessEq(i_available.position, i_available'.position)

\* C20: the applier never reads a byte the downloader has not written and
\* published: while the available position is in the operation being applied,
\* a read takes at most available.byte_idx - applied.byte_idx bytes, and the
\* published position never moves backwards within a package
C20_ReadsOnlyPublished ==
    [][ReadsWithinPublished /\ ReadsWrittenBytes /\ WatermarkMonotone]_vars

\* The part of it about the positions: the reads stay within the published
\* position, which does not move backwards
C20_WithinWatermark ==
    [][ReadsWithinPublished /\ WatermarkMonotone]_vars

(***************************************************************************)
(* The downloader alone: a package of three operations that carry data, two *)
(* of them slices of the file a, served by the repository and downloaded    *)
(* whole, from a position an earlier run saved, or for a repair.            *)
(***************************************************************************)
\* The data sizes of the three operations
SliceSizes == {<<1, 1, 1>>, <<2, 1, 2>>, <<1, 2, 2>>}

\* len bytes of a data file from offset first on; a byte tells its place
BytesFrom(first, len) == [i \in 1..len |-> first + i]

\* An Add of a slice of a file
SlicedAdd(path, slice, offset, len) ==
    [OpAdd(path, offset, BytesFrom(offset, len)) EXCEPT !.slice = slice]

SlicedOperations(sizes) ==
    <<SlicedAdd("a", "s1", 0, sizes[1]),
      SlicedAdd("a", "s2", sizes[1], sizes[2]),
      SlicedAdd("b", None, sizes[1] + sizes[2], sizes[3])>>

\* The repository serves the package complete_v2 with these operations
Served(sizes) ==
    [NoBuild EXCEPT !.pc = "registered",
                    !.package = [from |-> None, to |-> "v2",
                                 size |-> sizes[1] + sizes[2] + sizes[3]],
                    !.operations = SlicedOperations(sizes),
                    !.data = BytesFrom(0, sizes[1] + sizes[2] + sizes[3])]

\* The failures a check of the three operations may have found, in order
SlicedFailures ==
    { <<Failure("a", "s1")>>, <<Failure("a", "s2")>>, <<Failure("b", None)>>,
      <<Failure("a", "s1"), Failure("a", "s2")>>,
      <<Failure("a", "s1"), Failure("b", None)>>,
      <<Failure("a", "s2"), Failure("b", None)>>,
      <<Failure("a", "s1"), Failure("a", "s2"), Failure("b", None)>> }

\* The bytes of the package that belong to an operation
BytesOfOperation(name, op) ==
    SubSeq(PackageData(name), op.data_offset + 1, op.data_offset + op.data_size)

\* The dl directory a download left when it stopped at position available
DownloadedUpTo(name, operations, available) ==
    [s \in Slots |->
        IF s[1] # name \/ s[2] + 1 > Len(operations) THEN Absent
        ELSE IF range(operations[s[2] + 1]) = << >> THEN Absent
        ELSE IF s[2] < available.operation_idx
        THEN BytesOfOperation(name, operations[s[2] + 1])
        ELSE IF s[2] = available.operation_idx /\ available.byte_idx > 0
        THEN SubSeq(BytesOfOperation(name, operations[s[2] + 1]), 1, available.byte_idx)
        ELSE Absent]

\* The positions a download of the operations may have stopped at
StopPositions(operations) ==
    {UpdatePosition(i, k) : i \in 0..(Len(operations) - 1), k \in 0..1}

\* state.json of an update to v2 that stopped with the download at available
StoppedAt(available) ==
    ToJson(StateUpdating([StateUpdatingNew(None, "v2", << >>)
                              EXCEPT !.available = available]))

\* A workspace under the served package: new, or left by an update that
\* stopped during the download, or found corrupted by a check
InitDownload ==
    /\ \E sizes \in SliceSizes : build = Served(sizes)
    /\ packages = <<build.package>>
    /\ plan = NoPlan
    /\ \/ /\ stateJson = NoStateFile
          /\ dl = [s \in Slots |-> Absent]
       \/ \E failures \in SlicedFailures :
             /\ stateJson = StateCorrupted("v2", failures)
             /\ dl = [s \in Slots |-> Absent]
       \/ \E available \in StopPositions(build.operations) :
             /\ available.byte_idx < build.operations[available.operation_idx + 1].data_size
             /\ stateJson = StoppedAt(available)
             /\ dl = DownloadedUpTo("complete_v2", build.operations, available)
    /\ files = [f \in FilePaths |-> Absent]
    /\ exes = {}
    /\ dirs = {}
    /\ checkJson = NoCheckFile
    /\ tmp = [s \in Slots |-> Absent]
    /\ pc = "idle"
    /\ opts = NoOpts
    /\ state = StateUpdatingNew(None, None, << >>)
    /\ progress = UpdateProgressNew
    /\ pass = NoPass
    /\ chain = << >>
    /\ package = NoPackage
    /\ download = NoDownload
    /\ thread = NoThread
    /\ i_available = NoAvailable
    /\ o_applied = << >>
    /\ done = 0
    /\ last = NoLast
    /\ run = NoRun
    /\ tampered = {}
    /\ calls = 0
    /\ sliced = NoSliced
    /\ repo = NoRepo
    /\ writer = NoJson
    /\ link = NoLink

\* The update up to the end of the download of its package; the applier
\* thread is not scheduled before
NextDownload ==
    \/ Update({FALSE})
    \/ Plan({FALSE})
    \/ BeginPackage
    \/ EndPass
    \/ PollDownload

SpecDownload == InitDownload /\ [][NextDownload]_vars

\* The operations the running download fetches data for
Carrying ==
    WithRange(SkipWhile(package.operations, download.start_position.operation_idx))

ScratchFile(e) == dl[<<package.name, e.idx>>]

\* When the download stream has ended, the scratch file of every operation
\* it fetched holds exactly the operation's bytes of the package
ScratchFilesComplete ==
    pc = "package" /\ download.ended =>
        \A j \in 1..Len(Carrying) :
            ScratchFile(Carrying[j]) = BytesOfOperation(package.name, Carrying[j].op)

\* The watermark is beyond an operation only when all its bytes are written
WatermarkBehindWrites ==
    pc = "package" =>
        \A j \in 1..Len(Carrying) :
            Carrying[j].idx < i_available.position.operation_idx =>
                /\ ScratchFile(Carrying[j]) # Absent
                /\ Len(ScratchFile(Carrying[j])) = Carrying[j].op.data_size

\* C30: a download that succeeds leaves in the scratch file of every
\* operation it fetched exactly the bytes [data_offset, data_offset +
\* data_size) of the package, however the chunks are cut and whatever bytes
\* of other operations the merged range holds, and the watermark passes an
\* operation only once all its bytes are written
C30_ScratchHoldsPackageBytes ==
    ScratchFilesComplete /\ WatermarkBehindWrites

(***************************************************************************)
(* download_package up to its requests, over the operations of packages     *)
(* whose data lie next to each other or up to the merge distance and one    *)
(* byte apart, from the start of the package or from a saved position.      *)
(***************************************************************************)
\* The bytes between the data of two operations handed to download_package
RangeGaps == {0, 1, MergeDistance, MergeDistance + 1}

\* The data sizes of these operations
RangeSizes == {1, 2}

\* (idx, operation) pairs: a MkDir, then three operations that carry data
RangeOperations(sizes, gaps) ==
    LET second == sizes[1] + gaps[1]
        third == second + sizes[2] + gaps[2]
    IN  <<[idx |-> 0, op |-> OpMkDir("d")],
          [idx |-> 1, op |-> SlicedAdd("a", "s1", 0, sizes[1])],
          [idx |-> 2, op |-> SlicedAdd("a", "s2", second, sizes[2])],
          [idx |-> 3, op |-> SlicedAdd("b", None, third, sizes[3])]>>

\* The operations of a package are known and its download is about to be set
\* up, from the start or from the position an earlier run saved
InitRanges ==
    /\ build = NoBuild
    /\ packages = <<CompleteV2>>
    /\ plan = NoPlan
    /\ stateJson = NoStateFile
    /\ files = [f \in FilePaths |-> Absent]
    /\ exes = {}
    /\ dirs = {}
    /\ checkJson = NoCheckFile
    /\ tmp = [s \in Slots |-> Absent]
    /\ dl = [s \in Slots |-> Absent]
    /\ pc = "begin"
    /\ opts = [goal |-> "v2", check |-> FALSE]
    /\ \E sizes \in RangeSizes \X RangeSizes \X RangeSizes, gaps \in RangeGaps \X RangeGaps :
          /\ package = [name |-> "complete_v2", operations |-> RangeOperations(sizes, gaps)]
          /\ \E available \in StopPositions(package.operations) :
                /\ available.byte_idx < package.operations[available.operation_idx + 1].op.data_size
                   \/ available.byte_idx = 0
                /\ state = [StateUpdatingNew(None, "v2", << >>) EXCEPT !.available = available]
    /\ progress = [UpdateProgressNew EXCEPT !.stage = "Updating", !.steps = 1]
    /\ pass = NoPass
    /\ chain = <<CompleteV2>>
    /\ download = NoDownload
    /\ thread = NoThread
    /\ i_available = NoAvailable
    /\ o_applied = << >>
    /\ done = 0
    /\ last = NoLast
    /\ run = NoRun
    /\ tampered = {}
    /\ calls = 1
    /\ sliced = NoSliced
    /\ repo = NoRepo
    /\ writer = NoJson
    /\ link = NoLink

\* download_package: the requests of the package are computed
DownloadPackage ==
    /\ pc = "begin"
    /\ package # NoPackage
    /\ download' = download_package(SkipWhile(package.operations,
                                              state.available.operation_idx),
                                    state.available)
    /\ i_available' = [cancel |-> FALSE, position |-> state.available]
    /\ pc' = "package"
    /\ UNCHANGED <<sliced, repo, writer, link, build, exes, packages, plan, stateJson, checkJson, files, dirs, tmp, dl, opts,
                   state, progress, pass, chain, package, thread, o_applied, done, last,
                   run, tampered, calls>>

NextRanges == DownloadPackage

SpecRanges == InitRanges /\ [][NextRanges]_vars

\* The bytes still to fetch of the j-th operation that carries data
ToFetch(j) ==
    LET r == range(Carrying[j].op)[1]
    IN  [start |-> IF j = 1 THEN r.start + download.start_position.byte_idx ELSE r.start,
         end |-> r.end]

\* The requests that hold the bytes to fetch of the j-th carrying operation
RangesOf(j) ==
    {k \in 1..Len(download.ranges) :
        /\ download.ranges[k].start <= ToFetch(j).start
        /\ ToFetch(j).end <= download.ranges[k].end}

RangesIncrease ==
    \A k \in 1..Len(download.ranges) :
        /\ download.ranges[k].start < download.ranges[k].end
        /\ k > 1 => download.ranges[k - 1].end < download.ranges[k].start

EveryByteInOneRange ==
    \A j \in 1..Len(Carrying) : Cardinality(RangesOf(j)) = 1

FirstRangeFromOffset ==
    Carrying # << >> =>
        /\ download.ranges # << >>
        /\ download.ranges[1].start =
               Carrying[1].op.data_offset + download.start_position.byte_idx

MergedWithinDistance ==
    \A j \in 2..Len(Carrying) :
        (RangesOf(j - 1) = RangesOf(j))
            <=> (ToFetch(j).start - ToFetch(j - 1).end <= 500 * 1024)

\* No request starts or ends within the bytes between two operations
RangesBoundedByOperations ==
    \A k \in 1..Len(download.ranges) :
        /\ \E j \in 1..Len(Carrying) : download.ranges[k].start = ToFetch(j).start
        /\ \E j \in 1..Len(Carrying) : download.ranges[k].end = ToFetch(j).end

\* C29: the requests of a package come in increasing order and do not
\* overlap; the bytes still to fetch of every operation that carries data lie
\* in exactly one of them, those of the first such operation from data_offset
\* plus the resume offset on; two consecutive operations that carry data
\* share a request exactly when at most 500 KiB lie between their data
C29_RangesCoverOnce ==
    pc = "package" =>
        /\ RangesIncrease
        /\ EveryByteInOneRange
        /\ FirstRangeFromOffset
        /\ MergedWithinDistance
        /\ RangesBoundedByOperations

\* Three operations of which the first two are exactly 500 KiB apart and
\* share a request, the third one byte more and has its own, on a resume
C29_Witness ==
    /\ pc = "package"
    /\ Len(Carrying) = 3
    /\ download.start_position.byte_idx = 1
    /\ ToFetch(2).start - ToFetch(1).end = 500 * 1024
    /\ ToFetch(3).start - ToFetch(2).end = 500 * 1024 + 1
    /\ Len(download.ranges) = 2

(***************************************************************************)
(* An update over a workspace an earlier update left in the Updating state, *)
(* up to the start of its first package.                                    *)
(***************************************************************************)
\* The repository may have lost packages since the earlier update
RepositoriesLater ==
    Repositories \cup { <<CompleteV2>>, <<CompleteV1, CompleteV2>> }

\* The packages an earlier update may have been at
PackagesBefore == {CompleteV1, PatchV1V2, CompleteV2}

\* The positions an update of the operations may have saved: applied is
\* behind available, which is within the data of an operation or at its start
SavedPositions(operations) ==
    {pos \in [available : {UpdatePosition(i, k) : i \in 0..Len(operations), k \in 0..1},
              applied : {UpdatePosition(i, 0) : i \in 0..Len(operations)}] :
        /\ pos.applied.operation_idx <= pos.available.operation_idx
        /\ pos.available.byte_idx > 0 =>
              /\ pos.available.operation_idx < Len(operations)
              /\ pos.available.byte_idx <
                     operations[pos.available.operation_idx + 1].data_size}

\* The workspace after the first n operations were applied to base
RECURSIVE AppliedUpTo(_, _, _)
AppliedUpTo(operations, n, base) ==
    IF n = 0 THEN base
    ELSE LET w == AppliedUpTo(operations, n - 1, base)
             op == operations[n]
         IN  CASE op.kind = "MkDir" -> [w EXCEPT !.dirs = @ \cup {op.path}]
               [] op.kind \in {"Add", "Patch"} ->
                    [w EXCEPT !.files[op.path] =
                                  SubSeq(PackageData(w.name), op.data_offset + 1,
                                         op.data_offset + op.data_size)]
               [] OTHER -> w

\* The installation a package starts from
BaseOf(p) ==
    IF p.from = None
    THEN [name |-> package_data_name(p), files |-> [f \in FilePaths |-> Absent], dirs |-> {}]
    ELSE [name |-> package_data_name(p), files |-> ContentV1, dirs |-> {"d"}]

\* The dl directory without the data of the operations already applied
WithoutApplied(data, applied) ==
    [s \in Slots |-> IF s[2] < applied.operation_idx THEN Absent ELSE data[s]]

InitInterrupted ==
    /\ build = NoBuild
    /\ packages \in RepositoriesLater
    /\ plan = NoPlan
    /\ \E p \in PackagesBefore :
        \E pos \in SavedPositions(Operations(package_data_name(p))) :
          LET name == package_data_name(p)
              w == AppliedUpTo(Operations(name), pos.applied.operation_idx, BaseOf(p))
          IN  /\ stateJson = ToJson(StateUpdating(
                     [StateUpdatingNew(p.from, p.to, << >>)
                          EXCEPT !.available = pos.available, !.applied = pos.applied]))
              /\ files = w.files
              /\ dirs = w.dirs
              /\ dl = WithoutApplied(DownloadedUpTo(name, Operations(name), pos.available),
                                     pos.applied)
              /\ checkJson = CheckOperations(Operations(name))
    /\ exes = {}
    /\ tmp = [s \in Slots |-> Absent]
    /\ pc = "idle"
    /\ opts = NoOpts
    /\ state = StateUpdatingNew(None, None, << >>)
    /\ progress = UpdateProgressNew
    /\ pass = NoPass
    /\ chain = << >>
    /\ package = NoPackage
    /\ download = NoDownload
    /\ thread = NoThread
    /\ i_available = NoAvailable
    /\ o_applied = << >>
    /\ done = 0
    /\ last = NoLast
    /\ run = NoRun
    /\ tampered = {}
    /\ calls = 0
    /\ sliced = NoSliced
    /\ repo = NoRepo
    /\ writer = NoJson
    /\ link = NoLink

NextInterrupted ==
    \/ Update({FALSE})
    \/ Plan({FALSE})
    \/ BeginPackage

SpecInterrupted == InitInterrupted /\ [][NextInterrupted]_vars

\* The state the call found in state.json
Persisted == run.start_state.state

\* The package of the persisted state, if the repository still has it
PersistedPackage == FindPackage(packages, Persisted.from, Persisted.to)

\* The chain leads package by package to the goal; a complete package (from
\* no revision) applies to any revision
RECURSIVE LeadsTo(_, _, _)
LeadsTo(path, start, goal) ==
    IF path = << >> THEN start = goal
    ELSE /\ Head(path).from \in {start, None}
         /\ LeadsTo(Tail(path), Head(path).to, goal)

\* The pass of a call that found an Updating state was planned
PlannedFromUpdating ==
    /\ pc \in {"begin", "package"}
    /\ run.start_state.tag = "Updating"
    /\ pass.main_stage = "Updating"

\* C28: when state.json holds Updating{from, to} and the repository still has
\* the package from -> to, the chain planned starts with that package, keeps
\* the persisted available and applied positions and goes on from to to the
\* goal; when the package is gone the chain starts from no revision, at the
\* positions (0, 0)
C28_ResumePlan ==
    PlannedFromUpdating =>
        IF PersistedPackage # << >>
        THEN /\ chain # << >>
             /\ chain[1] = PersistedPackage[1]
             /\ state.available = Persisted.available
             /\ state.applied = Persisted.applied
             /\ LeadsTo(Tail(chain), Persisted.to, opts.goal)
             /\ Tail(chain) = IF Persisted.to = opts.goal THEN << >>
                              ELSE shortest_path(Persisted.to, opts.goal, packages).path
             /\ pc = "package" =>
                   /\ download.start_position = Persisted.available
                   /\ thread.operations =
                          SkipWhile(package.operations, Persisted.applied.operation_idx)
        ELSE /\ chain # << >>
             /\ LeadsTo(chain, None, opts.goal)
             /\ state.available = UpdatePosition(0, 0)
             /\ state.applied = UpdatePosition(0, 0)
             /\ pc = "package" => download.start_position = UpdatePosition(0, 0)

\* The update of v1 was resumed in the middle of the data of an operation,
\* after an operation was applied, and goes on to v2 with the patch
C28_Witness ==
    /\ PlannedFromUpdating
    /\ pc = "package"
    /\ PersistedPackage = <<CompleteV1>>
    /\ Len(chain) = 2
    /\ download.start_position.operation_idx = 2
    /\ Persisted.applied.operation_idx = 1

\* The package of the persisted state is gone and the update starts anew
C28_WitnessGone ==
    /\ PlannedFromUpdating
    /\ pc = "package"
    /\ PersistedPackage = << >>
    /\ Persisted.available # UpdatePosition(0, 0)

(***************************************************************************)
(* The repair pass, over workspaces a check found corrupted under the       *)
(* package served in slices. An operation of a slice names no slice         *)
(* handler: it is applied by the direct handler, as the applier of this     *)
(* model does.                                                              *)
(***************************************************************************)
\* The files of the installation, but for the files the failures are about
FilesBut(failures) ==
    LET failed == {failures[i].path : i \in 1..Len(failures)}
    IN  [f \in FilePaths |->
            IF f \in failed THEN Absent
            ELSE IF f = "a" THEN BytesOfOperation("complete_v2", build.operations[2])
            ELSE BytesOfOperation("complete_v2", build.operations[3])]

InitRepairPass ==
    /\ build \in {Served(<<1, 1, 1>>), Served(<<2, 1, 2>>)}
    /\ packages = <<build.package>>
    /\ plan = NoPlan
    /\ \E failures \in SlicedFailures :
          /\ stateJson = StateCorrupted("v2", failures)
          /\ files = FilesBut(failures)
    /\ dl = [s \in Slots |-> Absent]
    /\ exes = {}
    /\ dirs = {}
    /\ checkJson = CheckOperations(build.operations)
    /\ tmp = [s \in Slots |-> Absent]
    /\ pc = "idle"
    /\ opts = NoOpts
    /\ state = StateUpdatingNew(None, None, << >>)
    /\ progress = UpdateProgressNew
    /\ pass = NoPass
    /\ chain = << >>
    /\ package = NoPackage
    /\ download = NoDownload
    /\ thread = NoThread
    /\ i_available = NoAvailable
    /\ o_applied = << >>
    /\ done = 0
    /\ last = NoLast
    /\ run = NoRun
    /\ tampered = {}
    /\ calls = 0
    /\ sliced = NoSliced
    /\ repo = NoRepo
    /\ writer = NoJson
    /\ link = NoLink

NextRepairPass ==
    \/ Update(BOOLEAN)
    \/ Plan({FALSE})
    \/ Engine

SpecRepairPass == InitRepairPass /\ [][NextRepairPass]_vars

Repairing == pc = "package" /\ pass.main_stage = "Repairing"

\* The operation of the package is one the filter holds a failure for
Failed(o) ==
    \E i \in 1..Len(pass.filter) : pass.filter[i] = Failure(o.path, o.slice)

\* The paths of the failures of the filter
FailedPaths == {pass.filter[i].path : i \in 1..Len(pass.filter)}

\* The operations of the package in repair are its failed operations as they
\* are and the other slices of their files as Check operations; an update
\* with the check option keeps the other operations as Check operations
RepairSelection ==
    Repairing =>
        LET all == Operations(package.name)
            kept == {package.operations[j].idx : j \in 1..Len(package.operations)}
        IN  /\ \A j \in 1..Len(package.operations) :
                 LET e == package.operations[j]
                     o == all[e.idx + 1]
                 IN  \/ Failed(o) /\ e.op = o
                     \/ /\ ~Failed(o)
                        /\ o.slice # None
                        /\ o.path \in FailedPaths
                        /\ <<e.op>> = as_check_operation(o)
                     \/ /\ ~Failed(o)
                        /\ opts.check
                        /\ <<e.op>> = as_check_operation(o)
            /\ \A i \in 1..Len(all) : Failed(all[i]) => (i - 1) \in kept

\* Data are requested for failed operations alone
RepairFetchesFailed ==
    Repairing =>
        \A j \in 1..Len(download.operations_iter) :
            Failed(download.operations_iter[j].op)

\* A step of the repair pass leaves the files and directories at the paths
\* without failure as they are, and writes no scratch file for them
RepairFrame ==
    Repairing =>
        /\ \A path \in FilePaths \ FailedPaths :
               /\ files'[path] = files[path]
               /\ (path \in exes') = (path \in exes)
        /\ FailedPaths \cap DirPaths = {} => dirs' = dirs
        /\ \A s \in Slots :
               (tmp'[s] # tmp[s] \/ dl'[s] # dl[s]) =>
                   /\ s[1] = package.name
                   /\ Failed(Operations(package.name)[s[2] + 1])

C27_WitnessSliced ==
    /\ Repairing
    /\ pass.filter = <<Failure("a", "s1")>>
    /\ Len(package.operations) = 2
    /\ dl[<<package.name, 0>>] # Absent

(***************************************************************************)
(* An update that is stopped in the middle of a package: by an error of the *)
(* download, or by its caller who polls the stream no more and drops it.    *)
(* The applier thread is detached and runs on.                              *)
(***************************************************************************)
\* ApplyStream::cancel that leaves the state of the applier as it is
cancel_mutant(available) == available

\* ApplyStream::cancel
cancel(available) == [available EXCEPT !.cancel = TRUE]

\* The download error arm of UpdatePackageStream::poll_next while the applier
\* thread still runs: the applier is cancelled and the error is the item; the
\* inspect closure sees the item; the caller stops at the error
PollDownloadErrorStops ==
    /\ pc = "package"
    /\ ~download.ended
    /\ \E elapsed \in BOOLEAN :
          /\ stateJson' = Inspect(elapsed, stateJson, state, progress)
          /\ run' = Inspected(elapsed, run, state, progress)
    /\ i_available' = cancel(i_available)
    /\ last' = Error("Download", 0)
    /\ pc' = "stopped"
    /\ UNCHANGED <<sliced, repo, writer, link, build, exes, packages, plan, checkJson, files, dirs, tmp, dl, opts, state,
                   progress, pass, chain, package, download, thread, o_applied, done,
                   tampered, calls>>

\* The caller asks for a stop: it polls the stream no more and drops it
\* (try_take_while of the C binding when the progress callback returns false)
StopRequest ==
    /\ pc = "package"
    /\ last' = [NoLast EXCEPT !.kind = "stopped"]
    /\ pc' = "stopped"
    /\ UNCHANGED <<sliced, repo, writer, link, build, exes, packages, plan, stateJson, checkJson, files, dirs, tmp, dl, opts,
                   state, progress, pass, chain, package, download, thread, i_available,
                   o_applied, done, run, tampered, calls>>

InitStops ==
    Workspaces({<<CompleteV1, PatchV1V2, CompleteV2>>, <<CompleteV1, PatchV1V2>>},
               {w \in InstalledStates : w.stateJson \in {NoStateFile, StateStable("v1")}},
               {FALSE})

NextStops ==
    \/ Update({FALSE})
    \/ Plan({FALSE})
    \/ Engine
    \/ PollDownloadErrorStops
    \/ StopRequest

SpecStops == InitStops /\ [][NextStops]_vars

\* The update ended with the error of a download
DownloadFailed == last.kind = "err" /\ last.error = "Download"

\* C22: when a range fetch or a write of a data file fails the package is
\* given up: the error is the item the update stream yields, no further
\* package begins, and the cancel flag of the applier is set by the time the
\* error is returned
C22_ErrorCancelsApplier ==
    DownloadFailed => pc = "stopped" /\ i_available.cancel

\* The download failed while the applier was waiting for data
C22_Witness ==
    /\ DownloadFailed
    /\ pc = "stopped"
    /\ thread.pc = "wait"

\* The step stops the update in the middle of a package
Stops == pc = "package" /\ pc' = "stopped"

\* state.json holds the Updating state of the update as it stands
StateSaved == stateJson = ToJson(StateUpdating(state))

\* C23: when the update stops on a download error or on a stop request, the
\* files of dl and tmp are left in place and state.json was written with the
\* Updating state (from, to, available, applied, failures) of that moment
\* before update returns
C23_StopSavesState ==
    [][Stops => dl' = dl /\ tmp' = tmp /\ StateSaved']_vars

\* C24: once the cancel flag is set the applier begins no further operation:
\* no file or directory is removed or made, no tmp file is created and
\* nothing is committed after the cancellation
C24_NothingAfterCancel ==
    [][i_available.cancel =>
          files' = files /\ exes' = exes /\ dirs' = dirs /\ tmp' = tmp /\ dl' = dl]_vars

\* The applier waits for a position the downloader does not publish
Blocked ==
    /\ thread.pc = "wait"
    /\ ~i_available.cancel
    /\ ~PositionLess(thread.applied_data, i_available.position)

\* C25: when the update stream is driven no more before its package is over,
\* the cancel flag of the applier is signalled and no thread stays blocked on
\* the available position
C25_StoppedThreadEnds ==
    pc = "stopped" => i_available.cancel /\ ~Blocked

(***************************************************************************)
(* The apply stream: what the polling task has received when the stream is  *)
(* at its end.                                                              *)
(***************************************************************************)
\* The thread is through and the task has taken every item of the queue
EndOfApplyStream ==
    /\ pc = "package"
    /\ thread.pc = "done"
    /\ done = 1
    /\ o_applied = << >>

\* The last operation of the thread succeeded: the last item it queued is the
\* progress that tells so
LastOperationApplied ==
    /\ thread.operations # << >>
    /\ thread.applied_data =
           UpdatePosition(thread.operations[Len(thread.operations)].idx + 1, 0)

\* C26: however the applier thread and the polling task interleave, when the
\* apply stream is at its end the task has received the latest applied
\* operation index: the index it holds is the one the thread reached
C26_LatestAppliedDelivered ==
    EndOfApplyStream /\ LastOperationApplied =>
        state.applied.operation_idx = thread.applied_data.operation_idx

(***************************************************************************)
(* A package whose ranges are all fetched, under a task that keeps polling  *)
(* the update stream and a scheduler that keeps running the applier thread. *)
(***************************************************************************)
\* Installations to update, and a damaged installation of the package served
\* in slices, whose check pass downloads nothing
InitPolled ==
    \/ InitStops /\ stateJson = NoStateFile /\ Len(packages) = 2
    \/ /\ InitRepairPass
       /\ build = Served(<<1, 1, 1>>)
       /\ stateJson.failures \in {<<Failure("b", None)>>, <<Failure("a", "s1")>>}

\* One call of update, with or without the check option
UpdateOnce ==
    /\ calls = 0
    /\ Update(BOOLEAN)

NextPolled ==
    \/ UpdateOnce
    \/ Plan({FALSE})
    \/ Engine

\* The executor polls the stream whenever an item is ready (the download
\* stream has one until it ended, the apply queue when it is not empty, the
\* package stream when both are over); the thread is run by the system's
\* scheduler, and the condition variable wakes it when the position moved
SpecPolled ==
    /\ InitPolled
    /\ [][NextPolled]_vars
    /\ WF_vars(PollDownload)
    /\ WF_vars(PollApply)
    /\ WF_vars(EndPackage)
    /\ WF_vars(ThreadBegin)
    /\ WF_vars(ThreadApply)
    /\ WF_vars(ThreadEnd)

\* The position after the last operation of the package
PackageEnd ==
    UpdatePosition(package.operations[Len(package.operations)].idx + 1, 0)

\* The final item of the download was published
FinalWatermark ==
    /\ download.ended
    /\ package.operations # << >> => i_available.position = PackageEnd

\* The thread went through every operation it was given: each one was
\* committed or reported as a failure
ThreadThrough ==
    /\ thread.pc = "done"
    /\ thread.next = Len(thread.operations) + 1
    /\ done = 1

\* C21: when the ranges of a package are fetched without error and the update
\* stream keeps being polled, the final watermark reaches the position after
\* the last operation, the thread goes through every operation of the
\* package, and the package stream ends; a package whose download ended has
\* published that watermark
C21_PackageStreamEnds ==
    /\ (pc = "package") ~> (pc = "package" /\ FinalWatermark /\ ThreadThrough)
    /\ (pc = "package") ~> (pc # "package")
    /\ [](pc = "package" /\ download.ended => FinalWatermark)

\* The thread waits for data that the final item alone makes available: the
\* download has nothing more to write and has not ended
C21_Witness ==
    /\ pc = "package"
    /\ Blocked
    /\ ~download.ended
    /\ download.range_idx > Len(download.ranges)
    /\ i_available.position # PackageEnd

(***************************************************************************)
(* link/https.rs: HttpsRepository::package, the request of a range of a     *)
(* package's data file and the answer of an HTTP server.                    *)
(***************************************************************************)
DigitChars == <<"0", "1", "2", "3", "4", "5", "6", "7", "8", "9">>

\* format!("{}", n) of an unsigned number: its decimal digits
RECURSIVE Decimal(_)
Decimal(n) ==
    IF n < 10 THEN <<DigitChars[n + 1]>>
    ELSE Decimal(n \div 10) \o <<DigitChars[(n % 10) + 1]>>

\* format!("bytes={}-{}", range.start, range.end)
RangeHeader(r) ==
    <<"bytes=">> \o Decimal(r.start) \o <<"-">> \o Decimal(r.end)

\* The number a server reads in a sequence of digits
RECURSIVE ParseDecimal(_)
ParseDecimal(digits) ==
    IF digits = << >> THEN 0
    ELSE ParseDecimal(SubSeq(digits, 1, Len(digits) - 1)) * 10
         + IdxOf(DigitChars, digits[Len(digits)]) - 1

\* The byte-range-spec of a Range header: first-byte-pos "-" last-byte-pos,
\* both inclusive
ByteRangeSpec(header) ==
    LET dash == CHOOSE i \in 2..Len(header) : header[i] = "-"
    IN  [first |-> ParseDecimal(SubSeq(header, 2, dash - 1)),
         last |-> ParseDecimal(SubSeq(header, dash + 1, Len(header)))]

\* What a server may do with a range request
ServerModes == {"partial", "whole", "missing", "failing"}

\* The answer of a server that holds content: the bytes first..last of it
\* with 206 (last is cut to the end of the file, a first behind the end is
\* 416), the whole file with 200 when it takes no notice of the header, 404
\* or 500 with no content
Respond(mode, header, content) ==
    LET spec == ByteRangeSpec(header)
    IN  CASE mode = "missing" -> [status |-> 404, body |-> << >>]
          [] mode = "failing" -> [status |-> 500, body |-> << >>]
          [] mode = "whole" -> [status |-> 200, body |-> content]
          [] OTHER ->
                IF spec.first >= Len(content) \/ spec.last < spec.first
                THEN [status |-> 416, body |-> << >>]
                ELSE [status |-> 206,
                      body |-> SubSeq(content, spec.first + 1,
                                      Min(spec.last, Len(content) - 1) + 1)]

\* error_for_status: a client or server error status is an error
error_for_status(status) == status < 400

\* HttpsRepository::package: the request is sent; the stream of the body is
\* returned when the status is no error and is 206
package_https(r, mode, content) ==
    LET header == RangeHeader(r)
        response == Respond(mode, header, content)
        ok == error_for_status(response.status) /\ response.status = 206
    IN  [range |-> <<r>>, header |-> header, status |-> response.status,
         ok |-> ok, body |-> IF ok THEN response.body ELSE << >>]

\* The ranges [start, end) of a data file
RangesWithin(content) ==
    {[start |-> a, end |-> b] : a \in 0..Len(content), b \in 0..Len(content)}

\* A range of the served package is fetched over HTTPS
HttpsPackage ==
    /\ \E r \in {q \in RangesWithin(build.data) : q.start < q.end},
          mode \in ServerModes :
          link' = package_https(r, mode, build.data)
    /\ UNCHANGED <<sliced, repo, writer, build, packages, plan>>
    /\ UNCHANGED wvars

InitHttps ==
    /\ build \in {Served(<<2, 1, 2>>), Served(<<4, 4, 4>>)}
    /\ Installed({<<CompleteV2>>}, {w \in InstalledStates : w.stateJson = NoStateFile},
                 {FALSE})

NextHttps == HttpsPackage

SpecHttps == InitHttps /\ [][NextHttps]_vars

HttpsFetched == link.range # << >>

\* C40: for a half-open range [start, end) the link sends
\* Range: bytes=<start>-<end-1>, the body of a fetch that succeeds carries
\* exactly end - start bytes, and a response whose status is not 206 fails
\* the fetch
C40_RangeHeaderHalfOpen ==
    HttpsFetched =>
        LET r == link.range[1]
        IN  /\ link.header = <<"bytes=">> \o Decimal(r.start) \o <<"-">>
                               \o Decimal(r.end - 1)
            /\ link.ok => Len(link.body) = r.end - r.start
            /\ link.status # 206 => ~link.ok

(***************************************************************************)
(* check() as a verifier: what a call of check leaves of the workspace.     *)
(***************************************************************************)
\* Updates that may be killed at any point, and checks of what they left
NextCheck ==
    \/ Update({FALSE})
    \/ Check
    \/ Plan({FALSE})
    \/ Engine
    \/ Crash

SpecCheck == InitResume /\ [][NextCheck]_vars

\* The step is a call of check()
CheckCalled == pc = "idle" /\ calls' = calls + 1 /\ run'.call = "check"

\* C31: check() downloads nothing and changes nothing in the workspace apart
\* from state.json: no application file or directory is created, removed or
\* rewritten and no file permission changes
C31_CheckChangesStateOnly ==
    [][CheckCalled =>
          /\ files' = files /\ dirs' = dirs /\ exes' = exes
          /\ dl' = dl /\ tmp' = tmp /\ checkJson' = checkJson]_vars

(***************************************************************************)
(* io.rs: atomic_write_json, step by step, on a disk where any step may     *)
(* fail and under a process that may be killed between two steps.           *)
(***************************************************************************)
\* serde_json::to_writer_pretty writes a document to the file piece by piece:
\* here the opening, the value and the closing
DocumentTokens == 3

\* The file holds a whole document
Complete(file) == file.tokens = DocumentTokens

\* The file is there and holds the beginning of a document only
Partial(file) == file.tokens >= 0 /\ file.tokens < DocumentTokens

\* The states and check lists the workspace writes
JsonValues ==
    [p \in JsonPaths |->
        IF p = <<"state.json">>
        THEN {StateStable("v1"), StateStable("v2"),
              StateCorrupted("v2", <<Failure("b", None)>>)}
        ELSE {CheckOperations(Operations("complete_v1")),
              CheckOperations(Operations("complete_v2"))}]

\* atomic_write_json(path, value) is called: fs::File::create(tmp_path)
\* creates or truncates the .tmp file, or fails
WriteCreate ==
    /\ writer.pc = "idle"
    /\ \E path \in JsonPaths, fails \in BOOLEAN :
       \E value \in JsonValues[path] :
          writer' = IF fails
                  THEN [writer EXCEPT !.result = "err", !.path = path, !.value = <<value>>]
                  ELSE [writer EXCEPT !.pc = "write", !.path = path, !.value = <<value>>,
                                    !.result = None,
                                    !.disk[tmp_path(path)] =
                                        [tokens |-> 0, value |-> <<value>>]]
    /\ UNCHANGED <<sliced, repo, link, build, packages, plan, wvars>>

\* to_writer_pretty: one more piece reaches the file, or the write fails and
\* the error is returned with the .tmp file as it is
WriteTokens ==
    /\ writer.pc = "write"
    /\ writer.disk[tmp_path(writer.path)].tokens < DocumentTokens
    /\ \E fails \in BOOLEAN :
          writer' = IF fails
                  THEN [writer EXCEPT !.pc = "idle", !.result = "err"]
                  ELSE [writer EXCEPT !.disk[tmp_path(writer.path)].tokens = @ + 1]
    /\ UNCHANGED <<sliced, repo, link, build, packages, plan, wvars>>

\* file.flush() and the drop of the file, then atomic_rename: the .tmp file
\* takes the place of the document, or the rename fails and the .tmp file is
\* removed (when that fails too it stays)
WriteRename ==
    /\ writer.pc = "write"
    /\ writer.disk[tmp_path(writer.path)].tokens = DocumentTokens
    /\ \E fails \in BOOLEAN, removed \in BOOLEAN :
          writer' = IF fails
                  THEN [writer EXCEPT !.pc = "idle", !.result = "err",
                                    !.disk[tmp_path(writer.path)] =
                                        IF removed THEN NoJsonFile ELSE @]
                  ELSE [writer EXCEPT
                          !.pc = "idle", !.result = "ok",
                          !.disk = [p \in DOMAIN writer.disk |->
                                      IF p = writer.path
                                      THEN writer.disk[tmp_path(writer.path)]
                                      ELSE IF p = tmp_path(writer.path) THEN NoJsonFile
                                      ELSE writer.disk[p]]]
    /\ UNCHANGED <<sliced, repo, link, build, packages, plan, wvars>>

\* The process is killed during a write: the disk stays as it is
WriteCrash ==
    /\ writer.pc = "write"
    /\ writer' = [writer EXCEPT !.pc = "idle", !.result = "crash"]
    /\ UNCHANGED <<sliced, repo, link, build, packages, plan, wvars>>

InitJson ==
    /\ build = NoBuild
    /\ Installed({<<CompleteV1, CompleteV2>>},
                 {w \in InstalledStates : w.stateJson = NoStateFile}, {FALSE})

NextJson ==
    \/ WriteCreate
    \/ WriteTokens
    \/ WriteRename
    \/ WriteCrash

SpecJson == InitJson /\ [][NextJson]_vars

\* The document is absent or whole
AbsentOrWhole(path) == writer.disk[path] = NoJsonFile \/ Complete(writer.disk[path])

\* A step leaves the document as it was or puts the whole new document of
\* the write in progress in its place
PreviousOrNew(path) ==
    \/ writer'.disk[path] = writer.disk[path]
    \/ /\ writer.path = path
       /\ writer'.disk[path] = [tokens |-> DocumentTokens, value |-> writer.value]

\* C32: state.json and check.json are replaced atomically: at every instant,
\* also after a crash at any step of a write, each is absent or holds a whole
\* document, the previous one or the new one, and a write that fails leaves
\* the previous document in place
C32_JsonReplacedAtomically ==
    /\ [](\A path \in JsonPaths : AbsentOrWhole(path))
    /\ [][/\ \A path \in JsonPaths : PreviousOrNew(path)
          /\ writer'.result \in {"err", "crash"} =>
                \A path \in JsonPaths : writer'.disk[path] = writer.disk[path]]_vars

\* The process was killed in the middle of the write of a new state over a
\* previous one
C32_Witness ==
    /\ writer.result = "crash"
    /\ Partial(writer.disk[tmp_path(<<"state.json">>)])
    /\ Complete(writer.disk[<<"state.json">>])
    /\ writer.disk[<<"state.json">>].value # writer.value

\* A rename failed over a previous document
C32_WitnessFailed ==
    /\ writer.result = "err"
    /\ writer.path = <<"check.json">>
    /\ Complete(writer.disk[<<"check.json">>])
    /\ writer.disk[tmp_path(<<"check.json">>)] = NoJsonFile
    /\ writer.disk[<<"check.json">>].value # writer.value

(***************************************************************************)
(* repository/packager.rs, patch_file: the operation of a changed file.     *)
(***************************************************************************)
\* The bytes the data file of the package holds for an operation
StoredData(op) == SubSeq(build.data, op.data_offset + 1, op.data_offset + op.data_size)

\* A package was written by the build
PackageWritten == build.pc \in {"built", "registered"}

\* The operations of the package written for files that both directories
\* hold with different contents
ChangedFileOperations ==
    IF ~PackageWritten \/ build.previous = << >> THEN {}
    ELSE {op \in {build.operations[i] : i \in 1..Len(build.operations)} :
             /\ op.kind \in {"Add", "Patch"}
             /\ build.previous[1].files[op.path] # Absent
             /\ build.previous[1].files[op.path] # build.source[1].files[op.path]}

\* C35: the operation of a changed file is an Add or a Patch whose
\* data_compression names the codec that produced the stored data: decoding
\* the stored bytes of an Add with the decoder of that name gives the source
\* file, whose SHA-1 is final_sha1
C35_DataCompressionNamesCodec ==
    \A op \in ChangedFileOperations :
        op.kind = "Add" =>
            LET decoded == decoder(op.data_compression, StoredData(op))
            IN  /\ decoded.ok
                /\ decoded.output = build.source[1].files[op.path]
                /\ Sha1(decoded.output) = op.final_sha1

(***************************************************************************)
(* handlers/direct.rs, Handler::patch: the decoder of a Patch operation.    *)
(***************************************************************************)
\* The inverse of the builder for a Patch: the data are decompressed with
\* the decoder named data_compression, and what comes out is given to the
\* patcher named patch_type with the local file
PatchInverse(op, local, input) ==
    LET decompressed == decoder(op.data_compression, input)
    IN  IF ~decompressed.ok THEN decompressed
        ELSE patch_decoder("raw", op.patch_type, local, decompressed.output)

\* C38: for every Patch operation of a package the builder wrote, the
\* decoder Handler::patch builds over the previous file decompresses with
\* data_compression and then patches with patch_type, which gives back the
\* source file the builder patched and then compressed
C38_PatchDecoderInvertsBuilder ==
    \A op \in ChangedFileOperations :
        op.kind = "Patch" =>
            LET local == build.previous[1].files[op.path]
                inverse == PatchInverse(op, local, StoredData(op))
            IN  /\ inverse.ok
                /\ inverse.output = build.source[1].files[op.path]
                /\ Decoded(op, local, StoredData(op)) = inverse

(***************************************************************************)
(* repository/packager.rs, PackageBuilder::build: the stream of a build.    *)
(***************************************************************************)
\* What execute() returned, << >> while it runs
execute_result ==
    IF build.pc = "failed" THEN <<[ok |-> FALSE, err |-> build.error]>>
    ELSE IF PackageWritten THEN <<[ok |-> TRUE, err |-> None]>>
    ELSE << >>

\* rx_stream: a worker's progress is yielded as Ok(progression) for every
\* task that ran
rx_stream == [i \in 1..Len(build.ops_groups) |-> [ok |-> TRUE, err |-> None]]

\* w_stream: the future of execute() mapped by |_| stream::empty() and
\* flattened; the stream has no item whatever execute() returned
w_stream(result) == << >>

\* The items the stream of build() has yielded, and whether it has ended
build_stream ==
    [items |-> rx_stream \o (IF execute_result = << >> THEN << >>
                             ELSE w_stream(execute_result[1])),
     ended |-> execute_result # << >>]

\* C37: when the build has failed, the stream of build() has yielded the
\* BuildError: it holds an item that is the error execute() returned
C37_BuildErrorYielded ==
    (build.pc = "failed" /\ build_stream.ended) =>
        \E i \in 1..Len(build_stream.items) :
            /\ ~build_stream.items[i].ok
            /\ build_stream.items[i].err = build.error

(***************************************************************************)
(* repository/packager.rs, add_to_repository step by step: the four paths,  *)
(* the renames that may fail and the registration.                          *)
(***************************************************************************)
\* The four paths of the package: its data and metadata files in the build
\* directory and in the repository directory
RepoPaths == {"built_data", "built_metadata", "repo_data", "repo_metadata"}

\* What the four paths hold
Disk(r) == [p \in RepoPaths |-> r[p]]

\* The package was written; before add_to_repository is called its files may
\* have been removed from the build directory, and the repository may hold
\* files or directories of these names
Arrange ==
    /\ build.pc = "built"
    /\ repo.pc = "idle"
    /\ \E bd \in {"file", "none"}, bm \in {"file", "none"},
          rd \in {"none", "file", "dir"}, rm \in {"none", "file", "dir"} :
           repo' = [repo EXCEPT !.pc = "ready", !.built_data = bd, !.built_metadata = bm,
                                !.repo_data = rd, !.repo_metadata = rm]
    /\ UNCHANGED <<sliced, writer, link, build, packages, plan, wvars>>

\* io::assert_is_file_eq(path, expected_is_file)
assert_is_file_eq(kind, expected_is_file) == (kind = "file") = expected_is_file

\* The four checks add_to_repository makes before the first rename
AddAsserts ==
    /\ repo.pc = "ready"
    /\ repo' = IF /\ assert_is_file_eq(repo.built_data, TRUE)
                  /\ assert_is_file_eq(repo.built_metadata, TRUE)
                  /\ assert_is_file_eq(repo.repo_data, FALSE)
                  /\ assert_is_file_eq(repo.repo_metadata, FALSE)
               THEN [repo EXCEPT !.pc = "rename_data", !.before = <<Disk(repo)>>]
               ELSE [repo EXCEPT !.pc = "failed", !.before = <<Disk(repo)>>,
                                 !.result = "assert"]
    /\ UNCHANGED <<sliced, writer, link, build, packages, plan, wvars>>

\* fs::rename of a file: it fails on a file system that refuses writes and
\* onto a directory
rename_ok(r, from, to) == ~r.faulty /\ r[from] = "file" /\ r[to] # "dir"

\* The directories after fs::rename(from, to)
rename(r, from, to) ==
    IF rename_ok(r, from, to)
    THEN [[r EXCEPT ![to] = "file"] EXCEPT ![from] = "none"]
    ELSE r

\* The file system may start to refuse writes at any call, and goes on
\* refusing them
Faulty(r) == {[r EXCEPT !.faulty = f] : f \in {r.faulty, TRUE}}

\* fs::rename(&built_data_path, &repo_data_path)?
AddRenameData ==
    /\ repo.pc = "rename_data"
    /\ \E r \in Faulty(repo) :
           repo' = IF rename_ok(r, "built_data", "repo_data")
                   THEN [rename(r, "built_data", "repo_data") EXCEPT
                            !.pc = "rename_metadata"]
                   ELSE [r EXCEPT !.pc = "failed", !.result = "rename data"]
    /\ UNCHANGED <<sliced, writer, link, build, packages, plan, wvars>>

\* let res2 = fs::rename(&built_metadata_path, &repo_metadata_path)
AddRenameMetadata ==
    /\ repo.pc = "rename_metadata"
    /\ \E r \in Faulty(repo) :
           repo' = IF rename_ok(r, "built_metadata", "repo_metadata")
                   THEN [rename(r, "built_metadata", "repo_metadata") EXCEPT
                            !.pc = "register"]
                   ELSE [r EXCEPT !.pc = "move_back"]
    /\ UNCHANGED <<sliced, writer, link, build, packages, plan, wvars>>

\* if res2.is_err() { let _ = fs::rename(repo_data_path, built_data_path); }
\* res2?: the result of the move back is dropped
AddMoveBack ==
    /\ repo.pc = "move_back"
    /\ \E r \in Faulty(repo) :
           repo' = [rename(r, "repo_data", "built_data") EXCEPT
                       !.pc = "failed", !.result = "rename metadata"]
    /\ UNCHANGED <<sliced, writer, link, build, packages, plan, wvars>>

\* repository.register_package(&package_metadata_name)?: the index is
\* written with atomic_write_json, which fails on a file system that refuses
\* writes
AddRegister ==
    /\ repo.pc = "register"
    /\ \E r \in Faulty(repo) :
           IF r.faulty
           THEN /\ repo' = [r EXCEPT !.pc = "failed", !.result = "register"]
                /\ UNCHANGED <<sliced, build, packages>>
           ELSE /\ repo' = [r EXCEPT !.pc = "done"]
                /\ build' = [build EXCEPT !.pc = "registered"]
                /\ packages' = register_package(packages, build.package)
    /\ UNCHANGED <<sliced, writer, link, plan, wvars>>

\* Packages are built from a few source directories and added to an empty
\* repository
InitAdd ==
    /\ Builds({BuildOptionsRaw},
              {dir \in ValidDirectories : dir.exe = {} /\ dir.files["a"] # << >>},
              {<< >>})
    /\ Installed({<< >>}, {w \in InstalledStates : w.stateJson = NoStateFile}, {FALSE})

NextAdd ==
    \/ BuildTasks
    \/ Task
    \/ WritePackage
    \/ Arrange
    \/ AddAsserts
    \/ AddRenameData
    \/ AddRenameMetadata
    \/ AddMoveBack
    \/ AddRegister

SpecAdd == InitAdd /\ [][NextAdd]_vars

\* The checks of add_to_repository passed on the directories it was given
ChecksPassed(disk) ==
    /\ disk["built_data"] = "file" /\ disk["built_metadata"] = "file"
    /\ disk["repo_data"] # "file" /\ disk["repo_metadata"] # "file"

\* The package is listed by the packages index
Listed == \E i \in 1..Len(packages) : packages[i] = build.package

\* C36: add_to_repository moves nothing unless both built files exist and
\* neither target exists; a call that failed has not left the data file it
\* moved in the repository without the metadata file; and the index lists
\* the package only when both files are in the repository
C36_AddToRepositoryAllOrNothing ==
    /\ (repo.before # << >> /\ ~ChecksPassed(repo.before[1])) =>
           Disk(repo) = repo.before[1]
    /\ (repo.pc = "failed" /\ repo.repo_data = "file"
            /\ repo.before[1]["repo_data"] # "file") =>
           repo.repo_metadata = "file"
    /\ Listed => repo.repo_data = "file" /\ repo.repo_metadata = "file"

(***************************************************************************)
(* repository/packager.rs, PackageBuilder::execute with several workers:    *)
(* buffer_unordered runs up to num_threads tasks at a time and yields their *)
(* results as they complete (Task and WritePackage are the one-worker case).*)
(***************************************************************************)
\* The most workers a build is given
MaxThreads == 2

\* The index of the next task the stream of tasks hands out
NextTask == Cardinality(build.running) + Len(build.collected) + 1

\* buffer_unordered pulls the next task, which is spawned, while fewer than
\* num_threads tasks run
TaskSpawn ==
    /\ build.pc = "tasks"
    /\ NextTask <= Len(build.tasks)
    /\ Cardinality(build.running) < build.num_threads
    /\ build' = [build EXCEPT !.running = @ \cup {NextTask}]
    /\ UNCHANGED <<packages, plan>>
    /\ UNCHANGED evars

\* One of the running tasks completes: its (i, op) is collected, or its
\* error ends try_collect and the build
TaskComplete ==
    /\ build.pc = "tasks"
    /\ \E i \in build.running :
           LET op == RunBuildTask(build.options, build.source, build.previous,
                                  build.tasks[i])
           IN  build' = IF op.err # None
                        THEN [build EXCEPT !.pc = "failed", !.error = op.err]
                        ELSE [build EXCEPT !.running = @ \ {i},
                                           !.collected = Append(@, <<i, op>>)]
    /\ UNCHANGED <<packages, plan>>
    /\ UNCHANGED evars

\* A sort that leaves the results in the order they completed in
sort_by_key_mutant(groups) == groups

\* ops_groups.sort_by_key(|(i, _built_op)| *i): a stable sort by insertion
RECURSIVE sort_by_key(_)
sort_by_key(groups) ==
    IF groups = << >> THEN << >>
    ELSE LET sorted == sort_by_key(SubSeq(groups, 1, Len(groups) - 1))
             g == groups[Len(groups)]
             before == SelectSeq(sorted, LAMBDA h : h[1] <= g[1])
             after == SelectSeq(sorted, LAMBDA h : h[1] > g[1])
         IN  before \o <<g>> \o after

\* Every task completed: the results are sorted by the index of their task
\* and the data file and the metadata file of the package are written
WritePackageSorted ==
    /\ build.pc = "tasks"
    /\ Len(build.collected) = Len(build.tasks)
    /\ LET sorted == sort_by_key(build.collected)
           ops_groups == [k \in 1..Len(sorted) |-> sorted[k][2]]
           merged == MergeOperations(ops_groups, build.package.size, << >>, << >>)
       IN  build' = [build EXCEPT !.pc = "built",
                                  !.ops_groups = ops_groups,
                                  !.package.size = merged.size,
                                  !.operations = merged.operations,
                                  !.data = merged.data]
    /\ UNCHANGED <<packages, plan>>
    /\ UNCHANGED evars

\* Packages are built by one worker or several from directories whose files
\* are not empty, over no previous directory or over the directory of v1
InitParallel ==
    /\ \E options \in {BuildOptionsRaw, BuildOptionsMinRatio0},
          source \in {dir \in ValidDirectories :
                         \A q \in FilePaths : dir.files[q] # << >>},
          previous \in {<< >>, <<V1Directory>>},
          num_threads \in 1..MaxThreads :
           build = [NoBuild EXCEPT !.pc = "new", !.options = options,
                                   !.source = <<source>>, !.previous = previous,
                                   !.package = package_new(previous, "v2"),
                                   !.num_threads = num_threads]
    /\ Installed({<< >>}, {w \in InstalledStates : w.stateJson = NoStateFile}, {FALSE})

NextParallel ==
    \/ BuildTasks
    \/ TaskSpawn
    \/ TaskComplete
    \/ WritePackageSorted

SpecParallel == InitParallel /\ [][NextParallel]_vars

\* The operation the task builds, whatever offset its data get
TaskOperation(task) ==
    RunBuildTask(build.options, build.source, build.previous, task).operation

\* C33: whatever order the tasks completed in, the operations of the package
\* written are those of the tasks in the order the tasks were listed in, and
\* the data of an operation lie after the data of every operation before it
C33_OperationsInTaskOrder ==
    PackageWritten =>
        /\ Len(build.operations) = Len(build.tasks)
        /\ \A k \in 1..Len(build.operations) :
               [build.operations[k] EXCEPT !.data_offset = 0] =
                   [TaskOperation(build.tasks[k]) EXCEPT !.data_offset = 0]
        /\ \A j, k \in 1..Len(build.operations) :
               (/\ j < k
                /\ build.operations[j].kind \in {"Add", "Patch"}
                /\ build.operations[k].kind \in {"Add", "Patch"}) =>
                   build.operations[j].data_offset + build.operations[j].data_size
                       <= build.operations[k].data_offset
                   /\ build.operations[j].data_offset < build.operations[k].data_offset

\* A package was written from two files' data whose tasks completed in
\* another order than they were listed in
C33_Witness ==
    /\ PackageWritten
    /\ \E k \in 1..Len(build.collected) : build.collected[k][1] # k
    /\ Cardinality({k \in 1..Len(build.operations) :
                       build.operations[k].kind \in {"Add", "Patch"}}) >= 2

(***************************************************************************)
(* repository/packager.rs, push_dir over a name that is a directory on one  *)
(* side and a file on the other.                                            *)
(***************************************************************************)
\* Directories in which the name a may be a directory instead of a file
RetypedDirectories ==
    {[files |-> f, exe |-> {}, dirs |-> d] :
        f \in {g \in [FilePaths -> {Absent, <<1>>, <<4, 4, 5>>}] : g["b"] # <<4, 4, 5>>},
        d \in SUBSET {"a", "d"}}

\* A directory as a file system holds it: a name is a directory or a file
ValidRetyped == {dir \in RetypedDirectories : "a" \in dir.dirs => dir.files["a"] = Absent}

\* Patch packages are built from one of these directories over another
InitRetype ==
    /\ Builds({BuildOptionsRaw, BuildOptionsMinRatio0}, ValidRetyped,
              {<<previous>> : previous \in ValidRetyped})
    /\ Installed({<< >>}, {w \in InstalledStates : w.stateJson = NoStateFile}, {FALSE})

NextRetype == Builder

SpecRetype == InitRetype /\ [][NextRetype]_vars

\* A name is a directory in previous and a file in source, or a file in
\* previous and a directory in source
TypeChanged ==
    /\ build.previous # << >>
    /\ \E filename \in {PathOrder[k] : k \in 1..Len(PathOrder)} :
           LET pre_t == FileType(build.previous, filename)
               src_t == FileType(build.source, filename)
           IN  \/ is_dir(pre_t) /\ is_file(src_t)
               \/ is_file(pre_t) /\ is_dir(src_t)

\* C34: when a name changed its type between previous and source, the build
\* fails while its tasks are listed and no package is written
C34_TypeChangeFailsPlanning ==
    TypeChanged => ~PackageWritten

(***************************************************************************)
(* workspace/apply.rs and handlers/sliced.rs: the apply thread over a       *)
(* package that holds sliced files. A sliced file is a first operation      *)
(* without slice and without data, then one operation for every slice; all  *)
(* carry the slice handler's name.                                          *)
(***************************************************************************)
\* An operation of the package with its handler's name and its data
Entry(operation, slice_handler, data) ==
    [operation |-> operation, slice_handler |-> slice_handler, data |-> data]

\* The operations of a file of two slices cut after cut bytes
SlicedFile(path, content, cut) ==
    <<Entry([OpNoData("Add", path) EXCEPT !.final_size = Len(content),
                                           !.final_sha1 = Sha1(content)],
            "sliced", << >>),
      Entry([OpAdd(path, 0, SubSeq(content, 1, cut)) EXCEPT !.slice = "s1"],
            "sliced", SubSeq(content, 1, cut)),
      Entry([OpAdd(path, cut, SubSeq(content, cut + 1, Len(content)))
                EXCEPT !.slice = "s2"],
            "sliced", SubSeq(content, cut + 1, Len(content)))>>

\* The operation of a file the direct handler writes
DirectFile(path, content) == <<Entry(OpAdd(path, 0, content), None, content)>>

\* The contents of sliced files
SlicedContents == {<<1, 2>>, <<4, 4, 5>>, <<1, 2, 3, 4>>}

\* The packages: the sliced file a and then nothing, a file of the direct
\* handler, or a second sliced file
SlicedPackages ==
    {SlicedFile("a", content, cut) \o rest :
        content \in SlicedContents, cut \in 1..2,
        rest \in {<< >>, DirectFile("b", <<3>>)}
                  \cup {SlicedFile("b", c, 1) : c \in SlicedContents}}

\* apply_package: the thread is given the operations of a package whose data
\* are all downloaded
SlicedBegin ==
    /\ sliced.pc = "idle"
    /\ \E operations \in SlicedPackages :
           sliced' = [sliced EXCEPT !.pc = "applying", !.operations = operations,
                                    !.tmp_files = [i \in 1..Len(operations) |-> Absent]]
    /\ UNCHANGED <<repo, writer, link, build, packages, plan, wvars>>

\* Operation::apply_handler: the sliced handler of the operation (it keeps
\* the size and SHA-1 of its first operation and creates the tmp file of
\* that operation), or the direct handler
apply_handler(entry, operation_idx) ==
    IF entry.slice_handler = "sliced"
    THEN [kind |-> "sliced", path |-> entry.operation.path,
          final_size_expected |-> entry.operation.final_size,
          final_sha1_expected |-> entry.operation.final_sha1,
          tmp_file |-> operation_idx, operation_idx |-> operation_idx]
    ELSE [kind |-> "direct", path |-> entry.operation.path,
          final_size_expected |-> 0, final_sha1_expected |-> Sha1(<< >>),
          tmp_file |-> operation_idx, operation_idx |-> operation_idx]

\* ApplyHandler::try_still_compatible
try_still_compatible(handler, path) == handler.kind = "sliced" /\ handler.path = path

\* Handler::finalize of the sliced handler: the size and the SHA-1 of the tmp
\* file are compared with those of the whole file and the tmp file of the
\* handler's operation index is renamed to the final path. Nothing in the
\* crate calls it: no action of the thread uses this operator
finalize(handler, s) ==
    IF handler.kind # "sliced" THEN s
    ELSE LET output == s.tmp_files[handler.tmp_file]
         IN  IF \/ Len(output) # handler.final_size_expected
                \/ Sha1(output) # handler.final_sha1_expected
                \/ s.tmp_files[handler.operation_idx] = Absent
             THEN s
             ELSE [s EXCEPT !.final[handler.path] = s.tmp_files[handler.operation_idx],
                            !.tmp_files[handler.operation_idx] = Absent,
                            !.finalized = Append(@, handler.path)]

\* apply_operation: the handler of the operation before is kept when it is
\* still compatible, else it is dropped and the operation's own handler is
\* made; begin_apply gives the applier, which is fed the data and committed.
\* The sliced handler appends the decoded slice to its tmp file; the direct
\* handler writes the tmp file of the operation and renames it to the final
\* path.
SlicedApply ==
    /\ sliced.pc = "applying"
    /\ sliced.idx <= Len(sliced.operations)
    /\ LET entry == sliced.operations[sliced.idx]
           op == entry.operation
           kept == /\ sliced.maybe_handler # << >>
                   /\ try_still_compatible(sliced.maybe_handler[1], op.path)
           handler == IF kept
                      THEN [sliced.maybe_handler[1] EXCEPT !.operation_idx = sliced.idx]
                      ELSE apply_handler(entry, sliced.idx)
           created == IF ~kept /\ handler.kind = "sliced"
                      THEN [sliced.tmp_files EXCEPT ![sliced.idx] = << >>]
                      ELSE sliced.tmp_files
           decoded == decoder(op.data_compression, entry.data)
       IN  sliced' =
               IF handler.kind = "sliced"
               THEN [sliced EXCEPT
                        !.idx = @ + 1, !.maybe_handler = <<handler>>,
                        !.tmp_files =
                            IF op.slice = None THEN created
                            ELSE [created EXCEPT
                                     ![handler.tmp_file] = @ \o decoded.output]]
               ELSE [sliced EXCEPT
                        !.idx = @ + 1, !.maybe_handler = <<handler>>,
                        !.final[op.path] = decoded.output]
    /\ UNCHANGED <<repo, writer, link, build, packages, plan, wvars>>

\* The end of the loop over the operations: the thread stores done and
\* notifies the end; the handler is dropped with the closure
SlicedEnd ==
    /\ sliced.pc = "applying"
    /\ sliced.idx > Len(sliced.operations)
    /\ sliced' = [sliced EXCEPT !.pc = "done", !.maybe_handler = << >>]
    /\ UNCHANGED <<repo, writer, link, build, packages, plan, wvars>>

InitSliced ==
    /\ build = NoBuild
    /\ Installed({<< >>}, {w \in InstalledStates : w.stateJson = NoStateFile}, {FALSE})

NextSliced ==
    \/ SlicedBegin
    \/ SlicedApply
    \/ SlicedEnd

SpecSliced == InitSliced /\ [][NextSliced]_vars

\* The bytes of the sliced file, from the data of its slices in order
RECURSIVE Assembled(_, _)
Assembled(operations, path) ==
    IF operations = << >> THEN << >>
    ELSE (IF Head(operations).operation.path = path THEN Head(operations).data
          ELSE << >>) \o Assembled(Tail(operations), path)

\* The paths of the package's sliced files whose last operation was applied
SlicedFilesApplied ==
    {path \in FilePaths :
        /\ \E i \in 1..Len(sliced.operations) :
               /\ sliced.operations[i].operation.path = path
               /\ sliced.operations[i].slice_handler = "sliced"
        /\ \A i \in 1..Len(sliced.operations) :
               sliced.operations[i].operation.path = path => i < sliced.idx
        /\ \/ sliced.pc = "done"
           \/ /\ sliced.idx <= Len(sliced.operations)
              /\ sliced.idx - 1 \in 1..Len(sliced.operations)
              /\ sliced.operations[sliced.idx - 1].operation.path # path}

\* C39: once the last operation of a sliced file was applied and the thread
\* went past the file (to another path's operation or to the end of the
\* package), the file was finalized exactly once: the final path holds the
\* assembled slices
C39_SlicedFileFinalizedOnce ==
    \A path \in SlicedFilesApplied :
        /\ Len(SelectSeq(sliced.finalized, LAMBDA q : q = path)) = 1
        /\ sliced.final[path] = Assembled(sliced.operations, path)

====
